---------------------------- MODULE Spec2Model ----------------------------
(***************************************************************************)
(* Water rendering demo (Scene.cpp, Common.h, Common.hlsli, Shader.h).     *)
(*                                                                         *)
(* The model follows the frame code statement by statement:                *)
(*   RenderScene            the per-frame constants, then                  *)
(*   RenderSceneFromCamera  as the sequence of Direct3D calls it issues    *)
(*                          (Program), one action per kind of call, then   *)
(*   Present;                                                              *)
(*   UpdateScene            one action, with the frame time and the key    *)
(*                          states as inputs.                              *)
(*                                                                         *)
(* Units.  Positions are world units, frame times whole seconds, the     *)
(* components of the camera's axes 2^-26, the wave scale 2^-24 and the     *)
(* water movement 2^-30, so that 0.6f, 0.01f and 0.015f are integers.      *)
(* Every number is a float of the program: it is an integer here, and      *)
(* arithmetic rounds to the 24-bit significand of a float (RoundF).        *)
(*                                                                         *)
(* The device context is a plain binding table: binding a view never       *)
(* unbinds another one behind the program's back, so that the bindings     *)
(* the model shows are the ones the program itself asked for.              *)
(*                                                                         *)
(* Left out, read by no statement modelled here: the orbiting light, the   *)
(* troll's controls, the samplers, the per-model constants, the FPS lock   *)
(* and the window title.                                                   *)
(***************************************************************************)
EXTENDS Integers, Sequences, FiniteSets, TLC

VARIABLES
    pc,             \* 0: between calls; i > 0: about to execute Program[i]; -1: after ReleaseResources
    log,            \* the calls of the current (or last) frame, with the bindings they saw
    gpu,            \* the device context: render target, shader views, states, depth contents
    camera,         \* gCamera's world matrix, Null once gCamera is deleted
    originalMatrix, \* RenderSceneFromCamera's local copy of the world matrix
    pfc,            \* gPerFrameConstants
    waterY,         \* gWater->Position().y, Null once gWater is deleted
    waveScale,      \* UpdateScene's static waveScale
    waterPos,       \* UpdateScene's static waterPos
    entryMatrix,    \* history: the world matrix on entry to RenderSceneFromCamera
    upd,            \* history: whether UpdateScene ran, its waveScale before the clamp, its seconds so far
    rf,             \* the reflection transform applied on its own (SpecReflect)
    px,             \* one pixel of the refraction pass (SpecRefractedPixel)
    vx,             \* one vertex of the water surface (SpecWaterVertex)
    cb,             \* one field of a constant buffer, host side and shader side (SpecLayout)
    ig,             \* one run of InitGeometry and ReleaseResources (SpecInitGeometry)
    wp              \* the water height control of UpdateScene in float units (SpecWaterPlane)

\* The variables of the parts checked on their own.
fnVars == <<px, vx, cb, ig, wp>>

vars == <<pc, log, gpu, camera, originalMatrix, entryMatrix, upd, pfc, waterY,
          waveScale, waterPos, rf, fnVars>>

-----------------------------------------------------------------------------
(* Bounds of the model.                                                    *)

\* UpdateScene is not called once the frame times add up to more than this.
MaxTime == 3

\* The frame times UpdateScene is called with, in seconds.
FrameTimes == {0, 1, 2}

-----------------------------------------------------------------------------
(* Float arithmetic.                                                       *)

\* The number of significand values of a float: 2^24.
FloatSignificand == 2^24

Abs(x) == IF x < 0 THEN -x ELSE x

\* The spacing of the floats around a magnitude a.
RECURSIVE Ulp(_)
Ulp(a) == IF a < FloatSignificand THEN 1 ELSE 2 * Ulp(a \div 2)

\* x rounded to the nearest float, ties to the even significand.
RoundF(x) ==
    LET a    == Abs(x)
        q    == Ulp(a)
        down == a - (a % q)
        up   == down + q
        r    == IF 2 * (a % q) < q THEN down
                ELSE IF 2 * (a % q) > q THEN up
                ELSE IF (down \div q) % 2 = 0 THEN down ELSE up
    IN  IF x < 0 THEN -r ELSE r

\* x is a float.
Representable(x) == RoundF(x) = x

FAdd(a, b) == RoundF(a + b)
FSub(a, b) == RoundF(a - b)
FMul(a, b) == RoundF(a * b)

-----------------------------------------------------------------------------
(* The camera.                                                             *)

Vec(x, y, z) == [x |-> x, y |-> y, z |-> z]

Matrix(xa, ya, za, p) == [xAxis |-> xa, yAxis |-> ya, zAxis |-> za, position |-> p]

\* A null pointer, a slot with no view.
Null == "null"

\* A global object before anything is written to it.
ZeroMatrix == Matrix(Vec(0, 0, 0), Vec(0, 0, 0), Vec(0, 0, 0), Vec(0, 0, 0))

\* The components of the three axes are in 2^-26: an axis of length 1 along
\* a world axis has one component of AxisOne. Positions are in world units.
AxisOne == 2^26

\* InitScene's camera: at (-80, 50, 200), pitched 16 degrees and turned 145
\* degrees (SetRotation({ToRadians(16), ToRadians(145), 0})). The axes are
\* the rows of RotationX(16) * RotationY(145), every sine, cosine and product
\* a float:  x = (cos 145, 0, -sin 145),
\*           y = (sin 16 sin 145, cos 16, sin 16 cos 145),
\*           z = (cos 16 sin 145, -sin 16, cos 16 cos 145).
StartPose ==
    Matrix(Vec(-54972364, 0, -38492064),
           Vec(10609851, 64509180, -15152437),
           Vec(37000948, -18497710, -52842828),
           Vec(-80, 50, 200))

\* The poses Camera::Control can leave the camera in: the start pose,
\* looking straight down from below the water plane, and rolled a quarter
\* turn very far below the scene, where floats are 2 apart.
Poses ==
    { StartPose,
      Matrix(Vec(AxisOne, 0, 0), Vec(0, 0, AxisOne),  Vec(0, -AxisOne, 0), Vec(45, 4, 45)),
      Matrix(Vec(0, AxisOne, 0), Vec(-AxisOne, 0, 0), Vec(0, 0, AxisOne),  Vec(0, -33554430, 0)) }

\* Mutant: the camera height is added instead of subtracted.
ReflectCamera_SignSlip(m, planeY) ==
    [m EXCEPT !.xAxis.y    = FMul(m.xAxis.y, -1),
              !.yAxis.y    = FMul(m.yAxis.y, -1),
              !.zAxis.y    = FMul(m.zAxis.y, -1),
              !.position.y = FAdd(FMul(planeY, 2), m.position.y)]

\* Mutant: the z axis is left as it is.
ReflectCamera_TwoAxes(m, planeY) ==
    [m EXCEPT !.xAxis.y    = FMul(m.xAxis.y, -1),
              !.yAxis.y    = FMul(m.yAxis.y, -1),
              !.position.y = FSub(FMul(planeY, 2), m.position.y)]

\* The mirror image of a world matrix in the horizontal plane at height planeY.
ReflectCamera(m, planeY) ==
    [m EXCEPT !.xAxis.y    = FMul(m.xAxis.y, -1),
              !.yAxis.y    = FMul(m.yAxis.y, -1),
              !.zAxis.y    = FMul(m.zAxis.y, -1),
              !.position.y = FSub(FMul(planeY, 2), m.position.y)]

-----------------------------------------------------------------------------
(* The calls of a frame.                                                   *)
(*                                                                         *)
(* A call is [op, s, t, n]: its name, up to two names it is given (a       *)
(* view, a state, a model, a shader) and a slot number.                    *)

Call(op, s, t, n) == [op |-> op, s |-> s, t |-> t, n |-> n]

SelectCameraCall == <<Call("SelectCamera", "", "", 0)>>

\* The water normal map stays in slot 1 of both stages; then the standard
\* states: no blending, ordinary depth buffer, back-face culling.
PrepareCommonStates ==
    << Call("PSSetShaderResources", "WaterNormalMap", "", 1),
       Call("VSSetShaderResources", "WaterNormalMap", "", 1),
       Call("OMSetBlendState", "NoBlending", "", 0),
       Call("OMSetDepthStencilState", "UseDepthBuffer", "", 0),
       Call("RSSetState", "CullBack", "", 0) >>

NUM_LIGHTS == 2

RenderLitModels ==
    << Call("PSSetShaderResources", "GroundDiffuseSpecularMap", "", 0),
       Call("Render", "Ground", "", 0),
       Call("PSSetShaderResources", "TrollDiffuseSpecularMap", "", 0),
       Call("Render", "Troll", "", 0),
       Call("PSSetShaderResources", "CrateDiffuseSpecularMap", "", 0),
       Call("Render", "Crate", "", 0) >>

\* Mutant: the culling is left as the lights had it.
RestoreStandardStates_NoCull ==
    << Call("OMSetBlendState", "NoBlending", "", 0),
       Call("OMSetDepthStencilState", "UseDepthBuffer", "", 0) >>

\* The sky, then the lights, then the standard states again.
RestoreStandardStates ==
    << Call("OMSetBlendState", "NoBlending", "", 0),
       Call("OMSetDepthStencilState", "UseDepthBuffer", "", 0),
       Call("RSSetState", "CullBack", "", 0) >>

RenderOtherModels ==
    << Call("RSSetState", "CullNone", "", 0),
       Call("PSSetShaderResources", "SkyDiffuseSpecularMap", "", 0),
       Call("Render", "Sky", "", 0),
       Call("PSSetShaderResources", "LightDiffuseMap", "", 0),
       Call("OMSetBlendState", "AdditiveBlending", "", 0),
       Call("OMSetDepthStencilState", "DepthReadOnly", "", 0),
       Call("RSSetState", "CullNone", "", 0) >>
    \o [i \in 1..NUM_LIGHTS |-> Call("Render", "Light", "", i - 1)]
    \o RestoreStandardStates

\* Mutant: the depth buffer is never cleared.
ClearDepth_Absent == <<>>

ClearDepth == <<Call("ClearDepthStencilView", "DepthStencil", "", 0)>>

\* Mutant: the height map is drawn over what the last frame left in it.
HeightPass_NotCleared ==
    << Call("OMSetRenderTargets", "WaterHeight", "", 0) >>
    \o ClearDepth \o
    << Call("SetShaders", "WaterSurfaceVertexShader", "WaterHeightPixelShader", 0),
       Call("Render", "Water", "", 0) >>

HeightPass ==
    << Call("OMSetRenderTargets", "WaterHeight", "", 0),
       Call("ClearRenderTargetView", "WaterHeight", "Zero", 0) >>
    \o ClearDepth \o
    << Call("SetShaders", "WaterSurfaceVertexShader", "WaterHeightPixelShader", 0),
       Call("Render", "Water", "", 0) >>

\* Mutant: the height map goes to the slot of the refraction map.
BindWaterHeight_Slot3 == <<Call("PSSetShaderResources", "WaterHeight", "", 3)>>

BindWaterHeight == <<Call("PSSetShaderResources", "WaterHeight", "", 2)>>

RefractionPass ==
    << Call("OMSetRenderTargets", "Refraction", "", 0),
       Call("ClearRenderTargetView", "Refraction", "Background", 0) >>
    \o ClearDepth
    \o BindWaterHeight \o
    << Call("SetShaders", "PixelLightingVertexShader", "RefractedPixelLightingPixelShader", 0) >>
    \o RenderLitModels \o
    << Call("SetShaders", "BasicTransformWorldPosVertexShader", "RefractedTintedTexturePixelShader", 0) >>
    \o RenderOtherModels

\* Mutant: the culling is not switched for the mirrored scene.
MirrorCulling_Absent == <<>>

MirrorCulling == <<Call("RSSetState", "CullFront", "", 0)>>

\* Mutant: the camera is mirrored back instead of restored from the copy.
RestoreCamera_ByMirroring == <<Call("ReflectWorldMatrix", "", "", 0)>>

\* Mutant: the camera is left mirrored.
RestoreCamera_Absent == <<>>

RestoreCamera == <<Call("RestoreWorldMatrix", "", "", 0)>>

\* Mutant: the height map is left in slot 2 at the end of the reflection pass.
DetachWaterHeight_Forgotten == <<>>

DetachWaterHeight == <<Call("PSSetShaderResources", "null", "", 2)>>

ReflectionPass ==
    << Call("SaveWorldMatrix", "", "", 0),
       Call("ReflectWorldMatrix", "", "", 0) >>
    \o SelectCameraCall
    \o MirrorCulling \o
    << Call("OMSetRenderTargets", "Reflection", "", 0),
       Call("ClearRenderTargetView", "Reflection", "Background", 0) >>
    \o ClearDepth \o
    << Call("SetShaders", "PixelLightingVertexShader", "ReflectedPixelLightingPixelShader", 0) >>
    \o RenderLitModels \o
    << Call("SetShaders", "BasicTransformWorldPosVertexShader", "ReflectedTintedTexturePixelShader", 0) >>
    \o RenderOtherModels
    \o RestoreCamera
    \o SelectCameraCall \o
    << Call("RSSetState", "CullBack", "", 0) >>
    \o DetachWaterHeight

\* Mutant: the two views go to each other's slot.
BindRefractionReflection_Crossed ==
    << Call("PSSetShaderResources", "Reflection", "", 3),
       Call("PSSetShaderResources", "Refraction", "", 4) >>

BindRefractionReflection ==
    << Call("PSSetShaderResources", "Refraction", "", 3),
       Call("PSSetShaderResources", "Reflection", "", 4) >>

\* Mutant: only the refraction map is detached.
DetachRefractionReflection_OnlyFirst == <<Call("PSSetShaderResources", "null", "", 3)>>

DetachRefractionReflection ==
    << Call("PSSetShaderResources", "null", "", 3),
       Call("PSSetShaderResources", "null", "", 4) >>

\* Mutant: the water is drawn after the sky and the lights.
CompositePass_WaterLast ==
    << Call("OMSetRenderTargets", "BackBuffer", "", 0) >>
    \o ClearDepth \o
    << Call("SetShaders", "PixelLightingVertexShader", "PixelLightingPixelShader", 0) >>
    \o RenderLitModels \o
    << Call("SetShaders", "BasicTransformVertexShader", "TintedTexturePixelShader", 0) >>
    \o RenderOtherModels
    \o BindRefractionReflection \o
    << Call("SetShaders", "WaterSurfaceVertexShader", "WaterSurfacePixelShader", 0),
       Call("Render", "Water", "", 0) >>
    \o DetachRefractionReflection

\* Mutant: the back buffer is cleared like the offscreen targets.
CompositePass_ClearsBackBuffer ==
    << Call("OMSetRenderTargets", "BackBuffer", "", 0),
       Call("ClearRenderTargetView", "BackBuffer", "Background", 0) >>
    \o ClearDepth \o
    << Call("SetShaders", "PixelLightingVertexShader", "PixelLightingPixelShader", 0) >>
    \o RenderLitModels
    \o BindRefractionReflection \o
    << Call("SetShaders", "WaterSurfaceVertexShader", "WaterSurfacePixelShader", 0),
       Call("Render", "Water", "", 0) >>
    \o DetachRefractionReflection \o
    << Call("SetShaders", "BasicTransformVertexShader", "TintedTexturePixelShader", 0) >>
    \o RenderOtherModels

CompositePass ==
    << Call("OMSetRenderTargets", "BackBuffer", "", 0) >>
    \o ClearDepth \o
    << Call("SetShaders", "PixelLightingVertexShader", "PixelLightingPixelShader", 0) >>
    \o RenderLitModels
    \o BindRefractionReflection \o
    << Call("SetShaders", "WaterSurfaceVertexShader", "WaterSurfacePixelShader", 0),
       Call("Render", "Water", "", 0) >>
    \o DetachRefractionReflection \o
    << Call("SetShaders", "BasicTransformVertexShader", "TintedTexturePixelShader", 0) >>
    \o RenderOtherModels

\* Mutant: the reflected scene is rendered before the refracted one.
RenderSceneFromCamera_Swapped ==
    SelectCameraCall \o PrepareCommonStates
    \o HeightPass \o ReflectionPass \o RefractionPass \o CompositePass

RenderSceneFromCamera ==
    SelectCameraCall \o PrepareCommonStates
    \o HeightPass \o RefractionPass \o ReflectionPass \o CompositePass

\* RenderScene after its constants are set: the scene, then Present.
Program == RenderSceneFromCamera \o <<Call("Present", "", "", 0)>>

InFrame == pc \in 1..Len(Program)

Current == Program[pc]

\* Where a call continues: the next call, or back to the caller after Present.
Advance == pc' = IF pc = Len(Program) THEN 0 ELSE pc + 1

-----------------------------------------------------------------------------
(* The device context.                                                     *)

Slots == 0..4

\* The context before the first frame: nothing bound, default states, and a
\* depth buffer nothing has cleared yet.
InitialContext ==
    [ rt    |-> "None",
      srv   |-> [n \in Slots |-> "null"],
      vsrv  |-> "null",
      blend |-> "Default",
      dss   |-> "Default",
      cull  |-> "Default",
      vs    |-> "None",
      ps    |-> "None",
      depth |-> "Stale" ]

\* What the log keeps of a call: the call and the bindings it was made under.
Event(c) ==
    [ op |-> c.op, s |-> c.s, t |-> c.t, n |-> c.n,
      rt |-> gpu.rt, s2 |-> gpu.srv[2], s3 |-> gpu.srv[3], s4 |-> gpu.srv[4],
      cull |-> gpu.cull, dss |-> gpu.dss, blend |-> gpu.blend, depth |-> gpu.depth ]

Logged == log' = Append(log, Event(Current))

sceneVars  == <<camera, originalMatrix, entryMatrix, pfc>>
updateVars == <<waterY, waveScale, waterPos, upd>>

\* A call that changes the device context only.
ContextCall(op, next) ==
    /\ InFrame
    /\ Current.op = op
    /\ gpu' = next
    /\ Logged
    /\ Advance
    /\ UNCHANGED <<sceneVars, updateVars, rf, fnVars>>

OMSetRenderTargets ==
    ContextCall("OMSetRenderTargets", [gpu EXCEPT !.rt = Current.s])

ClearRenderTargetView ==
    ContextCall("ClearRenderTargetView", gpu)

ClearDepthStencilView ==
    ContextCall("ClearDepthStencilView", [gpu EXCEPT !.depth = "Cleared"])

PSSetShaderResources ==
    ContextCall("PSSetShaderResources", [gpu EXCEPT !.srv[Current.n] = Current.s])

VSSetShaderResources ==
    ContextCall("VSSetShaderResources", [gpu EXCEPT !.vsrv = Current.s])

OMSetBlendState ==
    ContextCall("OMSetBlendState", [gpu EXCEPT !.blend = Current.s])

OMSetDepthStencilState ==
    ContextCall("OMSetDepthStencilState", [gpu EXCEPT !.dss = Current.s])

RSSetState ==
    ContextCall("RSSetState", [gpu EXCEPT !.cull = Current.s])

SetShaders ==
    ContextCall("SetShaders", [gpu EXCEPT !.vs = Current.s, !.ps = Current.t])

\* A draw writes depth unless the depth state is read-only: the depth buffer
\* then holds values of the pass that targets gpu.rt.
Render ==
    ContextCall("Render",
                [gpu EXCEPT !.depth = IF gpu.dss = "DepthReadOnly" THEN @ ELSE gpu.rt])

\* Present ends RenderScene: the local originalMatrix is gone with the call.
Present ==
    /\ InFrame
    /\ Current.op = "Present"
    /\ Logged
    /\ Advance
    /\ originalMatrix' = ZeroMatrix
    /\ entryMatrix' = ZeroMatrix
    /\ UNCHANGED <<gpu, camera, pfc, updateVars, rf, fnVars>>

-----------------------------------------------------------------------------
(* The camera in a frame.                                                  *)

\* A call that changes the camera, its saved copy or the constants.
SceneCall(op, cam, saved, consts) ==
    /\ InFrame
    /\ Current.op = op
    /\ camera' = cam
    /\ originalMatrix' = saved
    /\ pfc' = consts
    /\ Logged
    /\ Advance
    /\ UNCHANGED <<gpu, entryMatrix, updateVars, rf, fnVars>>

\* Mutant: the constants are built anew around the camera's matrices.
SelectCamera_FreshConstants ==
    SceneCall("SelectCamera", camera, originalMatrix,
              [ cameraMatrix   |-> camera,
                cameraPosition |-> pfc.cameraPosition,
                waterPlaneY    |-> 0,
                waveScale      |-> 0,
                waterMovement  |-> [x |-> 0, y |-> 0] ])

\* Mutant: the camera's position is sent along with its matrices.
SelectCamera_WithPosition ==
    SceneCall("SelectCamera", camera, originalMatrix,
              [pfc EXCEPT !.cameraMatrix = camera, !.cameraPosition = camera.position])

\* The view, projection and view-projection matrices are functions of the
\* world matrix: cameraMatrix stands for the four.
SelectCamera ==
    SceneCall("SelectCamera", camera, originalMatrix,
              [pfc EXCEPT !.cameraMatrix = camera])

SaveWorldMatrix ==
    SceneCall("SaveWorldMatrix", camera, camera, pfc)

ReflectWorldMatrix ==
    SceneCall("ReflectWorldMatrix", ReflectCamera(camera, waterY), originalMatrix, pfc)

RestoreWorldMatrix ==
    SceneCall("RestoreWorldMatrix", originalMatrix, originalMatrix, pfc)

\* RenderScene up to its call of RenderSceneFromCamera.
RenderSceneBegin ==
    /\ pc = 0
    /\ pc' = 1
    /\ log' = <<>>
    /\ pfc' = [pfc EXCEPT !.cameraPosition = camera.position]
    /\ entryMatrix' = camera
    /\ UNCHANGED <<gpu, camera, originalMatrix, updateVars, rf, fnVars>>

\* ReleaseResources as the frame loop sees it: delete gCamera; gCamera =
\* nullptr; delete gWater; gWater = nullptr. It is called between frames,
\* and the program calls nothing after it. Its calls are taken one at a time
\* in SpecInitGeometry.
DeleteScene ==
    /\ pc = 0
    /\ pc' = -1
    /\ camera' = Null
    /\ waterY' = Null
    /\ UNCHANGED <<log, gpu, originalMatrix, entryMatrix, pfc, waveScale, waterPos, upd, rf, fnVars>>

-----------------------------------------------------------------------------
(* UpdateScene.                                                            *)

Vec2(x, y) == [x |-> x, y |-> y]

\* 1.0 of the wave scale, which is kept in 2^-24.
WaveScaleOne == 2^24

\* The starting values: gWater's height set by InitScene, and the static
\* waveScale of UpdateScene, the float 0.6f.
WaterYInit == 10
WaveScaleInit == 10066330

\* CVector2(0.01f, 0.015f), the two floats in 2^-30.
WaterVelocityX == 10737418
WaterVelocityY == 16106127

\* const float waterSpeed = 1.0f;
WaterSpeed == 1

\* Mutant: the water is kept at or above the ground.
WaterPlaneStep_AboveGround(y, ft, period, comma) ==
    LET ups   == IF period THEN {FAdd(y, FMul(5, ft)), RoundF(y + 5 * ft)} ELSE {y}
        downs == UNION { IF comma THEN {FSub(up, FMul(5, ft)), RoundF(up - 5 * ft)} ELSE {up} :
                             up \in ups }
    IN  { IF down < 0 THEN 0 ELSE down : down \in downs }

\* Control water height: 5 units a second up with Period, down with Comma.
\* The heights a build can leave: waterPlaneY += 5.0f * frameTime rounds the
\* product and then the sum, or, where the compiler contracts the two into
\* one fused operation, the sum only; the same for -=.
WaterPlaneStep(y, ft, period, comma) ==
    LET ups == IF period THEN {FAdd(y, FMul(5, ft)), RoundF(y + 5 * ft)} ELSE {y}
    IN  UNION { IF comma THEN {FSub(up, FMul(5, ft)), RoundF(up - 5 * ft)} ELSE {up} :
                    up \in ups }

\* Mutant: no clamp.
ClampWaveScale_Absent(w) == w

\* if (waveScale < 0)  waveScale = 0;
ClampWaveScale(w) == IF w < 0 THEN 0 ELSE w

\* Control wave height: 0.5f * frameTime up with Plus, down with Minus, each
\* a float operation.
WaveScaleKeys(w, ft, plus, minus) ==
    LET step == FMul(WaveScaleOne \div 2, ft)
        up   == IF plus THEN FAdd(w, step) ELSE w
    IN  IF minus THEN FSub(up, step) ELSE up

WaveScaleStep(w, ft, plus, minus) == ClampWaveScale(WaveScaleKeys(w, ft, plus, minus))

\* Mutant: both components move at the speed of the first.
WaterMove_OneSpeed(pos, ft) ==
    LET t == FMul(ft, WaterSpeed)
    IN  Vec2(FAdd(pos.x, FMul(t, WaterVelocityX)), FAdd(pos.y, FMul(t, WaterVelocityX)))

\* waterPos += frameTime * waterSpeed * CVector2(0.01f, 0.015f): the product
\* and the sum are float operations on each component.
WaterMove(pos, ft) ==
    LET t == FMul(ft, WaterSpeed)
    IN  Vec2(FAdd(pos.x, FMul(t, WaterVelocityX)), FAdd(pos.y, FMul(t, WaterVelocityY)))

\* The seconds UpdateScene has been called with so far.
Elapsed == upd.elapsed

\* Mutant: the constants get the height the water had before the keys.
UpdateScene_PublishesOld(ft, period, comma, plus, minus, pose) ==
    /\ pc = 0
    /\ Elapsed + ft <= MaxTime
    /\ camera' = pose
    /\ waterY' \in WaterPlaneStep(waterY, ft, period, comma)
    /\ waveScale' = WaveScaleStep(waveScale, ft, plus, minus)
    /\ upd' = [called |-> TRUE, accum |-> WaveScaleKeys(waveScale, ft, plus, minus),
               elapsed |-> Elapsed + ft]
    /\ waterPos' = WaterMove(waterPos, ft)
    /\ pfc' = [pfc EXCEPT !.waterPlaneY = waterY,
                          !.waveScale = waveScale',
                          !.waterMovement = waterPos']
    /\ UNCHANGED <<pc, log, gpu, originalMatrix, entryMatrix, rf, fnVars>>

UpdateScene(ft, period, comma, plus, minus, pose) ==
    /\ pc = 0
    /\ Elapsed + ft <= MaxTime
    /\ camera' = pose
    /\ waterY' \in WaterPlaneStep(waterY, ft, period, comma)
    /\ waveScale' = WaveScaleStep(waveScale, ft, plus, minus)
    /\ upd' = [called |-> TRUE, accum |-> WaveScaleKeys(waveScale, ft, plus, minus),
               elapsed |-> Elapsed + ft]
    /\ waterPos' = WaterMove(waterPos, ft)
    /\ pfc' = [pfc EXCEPT !.waterPlaneY = waterY',
                          !.waveScale = waveScale',
                          !.waterMovement = waterPos']
    /\ UNCHANGED <<pc, log, gpu, originalMatrix, entryMatrix, rf, fnVars>>

-----------------------------------------------------------------------------
(* The program.                                                            *)

RfIdle == [pose |-> ZeroMatrix, start |-> ZeroMatrix, planeY |-> 0, n |-> 0]

PxIdle == [stage |-> "Idle"]

VxIdle == [stage |-> "Idle"]

CbIdle == [stage |-> "Idle"]

WpIdle == [stage |-> "Idle"]

IgIdle == [stage |-> "Idle"]

Init ==
    /\ pc = 0
    /\ log = <<>>
    /\ gpu = InitialContext
    /\ camera = StartPose
    /\ originalMatrix = ZeroMatrix
    /\ entryMatrix = ZeroMatrix
    /\ pfc = [ cameraMatrix   |-> ZeroMatrix,
               cameraPosition |-> Vec(0, 0, 0),
               waterPlaneY    |-> 0,
               waveScale      |-> 0,
               waterMovement  |-> Vec2(0, 0) ]
    /\ waterY = WaterYInit
    /\ waveScale = WaveScaleInit
    /\ waterPos = Vec2(0, 0)
    /\ upd = [called |-> FALSE, accum |-> WaveScaleInit, elapsed |-> 0]
    /\ rf = RfIdle
    /\ px = PxIdle
    /\ vx = VxIdle
    /\ cb = CbIdle
    /\ wp = WpIdle
    /\ ig = IgIdle

Next ==
    \/ \E ft \in FrameTimes, period, comma, plus, minus \in BOOLEAN, pose \in Poses :
           UpdateScene(ft, period, comma, plus, minus, pose)
    \/ RenderSceneBegin
    \/ SelectCamera
    \/ OMSetRenderTargets
    \/ ClearRenderTargetView
    \/ ClearDepthStencilView
    \/ PSSetShaderResources
    \/ VSSetShaderResources
    \/ OMSetBlendState
    \/ OMSetDepthStencilState
    \/ RSSetState
    \/ SetShaders
    \/ Render
    \/ SaveWorldMatrix
    \/ ReflectWorldMatrix
    \/ RestoreWorldMatrix
    \/ Present
    \/ DeleteScene

Spec == Init /\ [][Next]_vars

-----------------------------------------------------------------------------
(* The reflection transform on its own: applied MaxReflections times to a  *)
(* pose and a plane height drawn from small sets.                          *)

MaxReflections == 2

\* The y of an axis: level, straight up or down, and the start pose's tilt.
AxisYs == {-AxisOne, 0, AxisOne, -18497710}

\* Camera heights: in the scene, and far enough out for floats to be 2 apart.
CameraYs == {50, 3, -33554430}

\* Plane heights: the scene's, and one where twice the height is 2^25.
PlaneYs == {10, 5, 16777216}

ReflectInputs ==
    { Matrix(Vec(AxisOne, a, 0), Vec(0, b, 0), Vec(0, c, AxisOne), Vec(-80, y, 200)) :
          a \in AxisYs, b \in AxisYs, c \in AxisYs, y \in CameraYs }

InitReflect ==
    /\ pc = 0
    /\ log = <<>>
    /\ gpu = InitialContext
    /\ camera = StartPose
    /\ originalMatrix = ZeroMatrix
    /\ entryMatrix = ZeroMatrix
    /\ pfc = [ cameraMatrix   |-> ZeroMatrix,
               cameraPosition |-> Vec(0, 0, 0),
               waterPlaneY    |-> 0,
               waveScale      |-> 0,
               waterMovement  |-> Vec2(0, 0) ]
    /\ waterY = WaterYInit
    /\ waveScale = WaveScaleInit
    /\ waterPos = Vec2(0, 0)
    /\ upd = [called |-> FALSE, accum |-> WaveScaleInit, elapsed |-> 0]
    /\ \E m \in ReflectInputs, y \in PlaneYs :
           rf = [pose |-> m, start |-> m, planeY |-> y, n |-> 0]
    /\ px = PxIdle
    /\ vx = VxIdle
    /\ cb = CbIdle
    /\ wp = WpIdle
    /\ ig = IgIdle

ApplyReflect ==
    /\ rf.n < MaxReflections
    /\ rf' = [rf EXCEPT !.pose = ReflectCamera(rf.pose, rf.planeY), !.n = @ + 1]
    /\ UNCHANGED <<pc, log, gpu, sceneVars, updateVars, fnVars>>

NextReflect == ApplyReflect

SpecReflect == InitReflect /\ [][NextReflect]_vars

-----------------------------------------------------------------------------
(* The frame's variables, at rest: the state after InitScene, which the    *)
(* parts checked on their own leave alone.                                 *)

SceneAtRest ==
    /\ pc = 0
    /\ log = <<>>
    /\ gpu = InitialContext
    /\ camera = StartPose
    /\ originalMatrix = ZeroMatrix
    /\ entryMatrix = ZeroMatrix
    /\ pfc = [ cameraMatrix   |-> ZeroMatrix,
               cameraPosition |-> Vec(0, 0, 0),
               waterPlaneY    |-> 0,
               waveScale      |-> 0,
               waterMovement  |-> Vec2(0, 0) ]
    /\ waterY = WaterYInit
    /\ waveScale = WaveScaleInit
    /\ waterPos = Vec2(0, 0)
    /\ upd = [called |-> FALSE, accum |-> WaveScaleInit, elapsed |-> 0]
    /\ rf = RfIdle

frameVars == <<pc, log, gpu, sceneVars, updateVars, rf>>

-----------------------------------------------------------------------------
(* The refraction pass's pixel shader (RefractedPixelLighting_ps), run on  *)
(* one pixel. Heights and depths are whole world units. A factor is a      *)
(* fraction [n, d] with d > 0, so that depth / 9 is kept exactly. A colour *)
(* channel is in thousandths.                                              *)

Frac(n, d) == [n |-> n, d |-> d]

FracEq(a, b) == a.n * b.d = b.n * a.d

FracLe(a, b) == a.n * b.d <= b.n * a.d

Channels == 1..3

\* Depth at which the refraction distortion, kept in alpha, is at its maximum.
MaxDistortionDistance == 40

\* Mutant: the extinction of clear tropical water, which the shader keeps commented out.
WaterExtinction_Tropical == <<15, 75, 300>>

\* How far red, green and blue light travel in the water.
WaterExtinction == <<9, 7, 3>>

\* normalize(WaterExtinction) * WaterDiffuseLevel: (9, 7, 3) / sqrt(139) * 0.5.
WaterTint == <<382, 297, 127>>

\* saturate: clamp to [0, 1].
Saturate(q) ==
    IF q.n < 0 THEN Frac(0, q.d) ELSE IF q.n > q.d THEN Frac(q.d, q.d) ELSE q

\* Mutant: a pixel at the water's height is discarded too.
Clip_AtZero(x) == x <= 0

\* clip: TRUE when the pixel is discarded.
Clip(x) == x < 0

\* lerp(a, b, t) = a + t * (b - a), a fraction of thousandths.
Lerp(a, b, t) == Frac(a * t.d + t.n * (b - a), 1000 * t.d)

\* float3 depthDarken = saturate(objectDepth / WaterExtinction);
DepthDarken(objectDepth) ==
    [c \in Channels |-> Saturate(Frac(objectDepth, WaterExtinction[c]))]

\* Mutant: the alpha saturates at half the distance.
RefractionAlpha_Half(objectDepth) == Saturate(Frac(2 * objectDepth, MaxDistortionDistance))

\* saturate(objectDepth / MaxDistortionDistance)
RefractionAlpha(objectDepth) == Saturate(Frac(objectDepth, MaxDistortionDistance))

\* A value in [0, 1] stored in a channel of an 8-bit UNORM texture.
Unorm8(q) == (2 * 255 * q.n + q.d) \div (2 * q.d)

\* main() of the pixel shader: what it does to a pixel at height worldY,
\* lit to colour scene, where the height map sample is waterHeight.
RefractedPixelLighting(waterHeight, worldY, scene) ==
    LET objectDepth == FSub(waterHeight, worldY)
        depthDarken == DepthDarken(objectDepth)
        refractionColour ==
            [c \in Channels |-> Lerp(scene[c], WaterTint[c], depthDarken[c])]
        alpha == RefractionAlpha(objectDepth)
    IN  IF Clip(objectDepth)
        THEN [discarded |-> TRUE, depth |-> objectDepth]
        ELSE [discarded |-> FALSE, depth |-> objectDepth,
              darken |-> depthDarken,
              colour |-> refractionColour,
              alpha  |-> alpha,
              stored |-> [rgb |-> [c \in Channels |-> Unorm8(refractionColour[c])],
                          a   |-> Unorm8(alpha)]]

\* Height map samples: 0 is the cleared value, where no water was drawn.
WaterHeights == {0, 10, 15}

WorldYs == {-45, -40, -30, -9, -7, -5, -3, -1, 0, 1, 3, 5, 7, 10, 12, 50}

SceneColours == {<<0, 0, 0>>, <<1000, 500, 250>>}

InitRefractedPixel ==
    /\ SceneAtRest
    /\ \E h \in WaterHeights, y \in WorldYs, s \in SceneColours :
           px = [stage |-> "Input", waterHeight |-> h, worldY |-> y, scene |-> s]
    /\ vx = VxIdle
    /\ cb = CbIdle
    /\ wp = WpIdle
    /\ ig = IgIdle

RunRefractedPixel ==
    /\ px.stage = "Input"
    /\ px' = [stage |-> "Output", waterHeight |-> px.waterHeight,
              worldY |-> px.worldY, scene |-> px.scene,
              out |-> RefractedPixelLighting(px.waterHeight, px.worldY, px.scene)]
    /\ UNCHANGED <<frameVars, vx, cb, ig, wp>>

NextRefractedPixel == RunRefractedPixel

SpecRefractedPixel == InitRefractedPixel /\ [][NextRefractedPixel]_vars

\* The pixel has been through the shader and was written.
PixelWritten == px.stage = "Output" /\ ~px.out.discarded

-----------------------------------------------------------------------------
(* The water surface's vertex shader (WaterSurface_vs), run on one vertex. *)
(* A texture coordinate uv is in tenths and gWaterMovement in thousandths; *)
(* a sample's coordinate is in 1/20000. The sampler filters: a sample is   *)
(* the weighted mean of the four texels around the coordinate, the weights *)
(* in 1/256 of a texel on each axis. A texel's height is in 1/128, so that *)
(* a sampled height is a whole number of 2^-23 and a float as it stands;   *)
(* the sum of four heights is rounded as the float sum is from 2.0 on.     *)
(* gWaveScale is in halves here, and so is MaxWaveHeight; the Y offset is  *)
(* in 2^-27.                                                               *)

\* 1.0 as a height: 2^23 units.
HeightOne == FloatSignificand \div 2

\* Mutant: the two fastest layers have their speeds swapped.
WaterLayers_SpeedsSwapped ==
    << [size |-> 1, speed |-> 5], [size |-> 2, speed |-> 10],
       [size |-> 4, speed |-> 26], [size |-> 8, speed |-> 17] >>

\* WaterSize1..4 in halves and WaterSpeed1..4 in tenths.
WaterLayers ==
    << [size |-> 1, speed |-> 5], [size |-> 2, speed |-> 10],
       [size |-> 4, speed |-> 17], [size |-> 8, speed |-> 26] >>

\* World space width of the water surface.
WaterWidth == 400

\* 1 / HeightMapHeightOverWidth.
HeightMapWidthOverHeight == 32

\* WaterWidth * HeightMapHeightOverWidth = 12.5, in halves.
MaxWaveHeight == (2 * WaterWidth) \div HeightMapWidthOverHeight

\* WaterSize * (waterUV + gWaterMovement * WaterSpeed), in 1/20000.
WaterSampleUV(layer, uv, movement) ==
    Vec2(layer.size * (1000 * uv.x + movement.x * layer.speed),
         layer.size * (1000 * uv.y + movement.y * layer.speed))

\* The height maps the shader is run on are TexWidth texels a side and tile.
TexWidth == 4

\* The filter places a sample to 1/SubTexel of a texel.
SubTexel == 256

\* 1.0 as the height of a texel: heights of texels are in 1/128.
TexelOne == 128

\* Where a coordinate falls among the centres of the texels: the coordinate
\* in texels less half a texel, to the nearest 1/SubTexel.
TexelPlace(u) ==
    (u * 2 * TexWidth * SubTexel + 20000) \div (2 * 20000) - SubTexel \div 2

\* The texel whose centre is at or below the coordinate; the texture tiles.
TexelIndex(u) == (TexelPlace(u) \div SubTexel) % TexWidth

\* The weight of the next texel, in 1/SubTexel: how far past that centre the
\* coordinate is.
TexelWeight(u) == TexelPlace(u) % SubTexel

\* The alpha channel of NormalHeightMap: the height of a texel, in 1/128.
Texel(tex, iu, iv) ==
    CASE tex = "Trough" -> 0
      [] tex = "Crest"  -> TexelOne
      [] tex = "Calm"   -> TexelOne \div 2
      [] tex = "Ripple" -> IF (iu + iv) % TexWidth = 0 THEN TexelOne ELSE 1
      [] tex = "Swell"  -> IF (iu + iv) % TexWidth = 0 THEN TexelOne ELSE TexelOne - 1

\* NormalHeightMap.SampleLevel(StandardFilter, uv, 0).a: StandardFilter is a
\* filtering sampler, so the sample is the mean of the four texels around
\* the coordinate, weighted by its place among their centres. In 2^-23.
SampleLevel(tex, uv) ==
    LET iu == TexelIndex(uv.x)
        iv == TexelIndex(uv.y)
        ju == (iu + 1) % TexWidth
        jv == (iv + 1) % TexWidth
        fu == TexelWeight(uv.x)
        fv == TexelWeight(uv.y)
    IN    (SubTexel - fu) * (SubTexel - fv) * Texel(tex, iu, iv)
        + fu * (SubTexel - fv) * Texel(tex, ju, iv)
        + (SubTexel - fu) * fv * Texel(tex, iu, jv)
        + fu * fv * Texel(tex, ju, jv)

\* The four heights added in the order p: ((h[p1] + h[p2]) + h[p3]) + h[p4].
SumInOrder(h, p) == FAdd(FAdd(FAdd(h[p[1]], h[p[2]]), h[p[3]]), h[p[4]])

\* float height = normal1 + normal2 + normal3 + normal4;
WaterSurfaceHeight(h) == SumInOrder(h, <<1, 2, 3, 4>>)

\* Mutant: the heights are not centred on the rest height.
WaveOffset_NotCentred(height, scale) == FMul(FMul(height, MaxWaveHeight), scale)

\* (0.25f * height - 0.5f) * MaxWaveHeight * gWaveScale, in 2^-27:
\* 0.25f * height is exact, and in 2^-25 it is the number height is in 2^-23.
WaveOffset(height, scale) ==
    FMul(FMul(FSub(height, 2 * HeightOne), MaxWaveHeight), scale)

\* main() of the vertex shader, up to the displacement of the vertex.
WaterSurface(uv, movement, tex, scale) ==
    LET sampleUV == [i \in 1..4 |-> WaterSampleUV(WaterLayers[i], uv, movement)]
        normal   == [i \in 1..4 |-> SampleLevel(tex, sampleUV[i])]
        height   == WaterSurfaceHeight(normal)
    IN  [sampleUV |-> sampleUV, normal |-> normal, height |-> height,
         offsetY |-> WaveOffset(height, scale)]

VertexUVs == {Vec2(0, 0), Vec2(5, 0), Vec2(5, 5), Vec2(10, 5)}

WaterMovements == {Vec2(0, 0), Vec2(3, 7), Vec2(10, 15), Vec2(1000, 1500)}

Textures == {"Trough", "Crest", "Calm", "Ripple", "Swell"}

\* gWaveScale: 0, 0.5, 1 and 1.5.
WaveScales == 0..3

InitWaterVertex ==
    /\ SceneAtRest
    /\ px = PxIdle
    /\ \E uv \in VertexUVs, m \in WaterMovements, t \in Textures, s \in WaveScales :
           vx = [stage |-> "Input", uv |-> uv, movement |-> m, tex |-> t, scale |-> s]
    /\ cb = CbIdle
    /\ wp = WpIdle
    /\ ig = IgIdle

RunWaterVertex ==
    /\ vx.stage = "Input"
    /\ vx' = [stage |-> "Output", uv |-> vx.uv, movement |-> vx.movement,
              tex |-> vx.tex, scale |-> vx.scale,
              out |-> WaterSurface(vx.uv, vx.movement, vx.tex, vx.scale)]
    /\ UNCHANGED <<frameVars, px, cb, ig, wp>>

NextWaterVertex == RunWaterVertex

SpecWaterVertex == InitWaterVertex /\ [][NextWaterVertex]_vars

\* The orders four heights can be added in.
Orders == {p \in [1..4 -> 1..4] : \A i, j \in 1..4 : p[i] = p[j] => i = j}

\* No partial sum of the four heights, added in the order p, is rounded.
SumsExactly(h, p) ==
    /\ h[p[1]] + h[p[2]] = FAdd(h[p[1]], h[p[2]])
    /\ h[p[1]] + h[p[2]] + h[p[3]] = FAdd(h[p[1]] + h[p[2]], h[p[3]])
    /\ h[p[1]] + h[p[2]] + h[p[3]] + h[p[4]] = FAdd(h[p[1]] + h[p[2]] + h[p[3]], h[p[4]])

-----------------------------------------------------------------------------
(* The two constant buffers: the C++ structures of Common.h, and the       *)
(* cbuffers of Common.hlsli that read the same bytes. Offsets and sizes    *)
(* are in bytes. A field is stored by the host and then loaded by the      *)
(* shader.                                                                 *)

\* A member, and an array member of n elements.
Field(name, type) == [name |-> name, type |-> type, count |-> 1]

ArrayField(name, type, n) == [name |-> name, type |-> type, count |-> n]

\* Bytes of a type: a float is 4, and vectors and matrices are floats.
TypeSize(t) ==
    CASE t \in {"CMatrix4x4", "float4x4"} -> 64
      [] t \in {"CVector3", "float3"}     -> 12
      [] t \in {"CVector2", "float2"}     -> 8
      [] t = "float"                      -> 4

MAX_BONES == 64

\* Mutant: the padding after cameraPosition is left out.
PerFrameHost_NoPadding3 ==
    << Field("cameraMatrix", "CMatrix4x4"), Field("viewMatrix", "CMatrix4x4"),
       Field("projectionMatrix", "CMatrix4x4"), Field("viewProjectionMatrix", "CMatrix4x4"),
       Field("light1Position", "CVector3"), Field("viewportWidth", "float"),
       Field("light1Colour", "CVector3"),   Field("viewportHeight", "float"),
       Field("light2Position", "CVector3"), Field("padding1", "float"),
       Field("light2Colour", "CVector3"),   Field("padding2", "float"),
       Field("ambientColour", "CVector3"),  Field("specularPower", "float"),
       Field("cameraPosition", "CVector3"),
       Field("waterPlaneY", "float"), Field("waveScale", "float"),
       Field("waterMovement", "CVector2") >>

\* struct PerFrameConstants
PerFrameHost ==
    << Field("cameraMatrix", "CMatrix4x4"), Field("viewMatrix", "CMatrix4x4"),
       Field("projectionMatrix", "CMatrix4x4"), Field("viewProjectionMatrix", "CMatrix4x4"),
       Field("light1Position", "CVector3"), Field("viewportWidth", "float"),
       Field("light1Colour", "CVector3"),   Field("viewportHeight", "float"),
       Field("light2Position", "CVector3"), Field("padding1", "float"),
       Field("light2Colour", "CVector3"),   Field("padding2", "float"),
       Field("ambientColour", "CVector3"),  Field("specularPower", "float"),
       Field("cameraPosition", "CVector3"), Field("padding3", "float"),
       Field("waterPlaneY", "float"), Field("waveScale", "float"),
       Field("waterMovement", "CVector2") >>

\* cbuffer PerFrameConstants, each name without its g.
PerFrameShader ==
    << Field("cameraMatrix", "float4x4"), Field("viewMatrix", "float4x4"),
       Field("projectionMatrix", "float4x4"), Field("viewProjectionMatrix", "float4x4"),
       Field("light1Position", "float3"), Field("viewportWidth", "float"),
       Field("light1Colour", "float3"),   Field("viewportHeight", "float"),
       Field("light2Position", "float3"), Field("padding1", "float"),
       Field("light2Colour", "float3"),   Field("padding2", "float"),
       Field("ambientColour", "float3"),  Field("specularPower", "float"),
       Field("cameraPosition", "float3"), Field("padding3", "float"),
       Field("waterPlaneY", "float"), Field("waveScale", "float"),
       Field("waterMovement", "float2") >>

\* struct PerModelConstants
PerModelHost ==
    << Field("worldMatrix", "CMatrix4x4"),
       Field("objectColour", "CVector3"), Field("padding4", "float"),
       ArrayField("boneMatrices", "CMatrix4x4", MAX_BONES) >>

\* cbuffer PerModelConstants, each name without its g.
PerModelShader ==
    << Field("worldMatrix", "float4x4"),
       Field("objectColour", "float3"), Field("padding4", "float"),
       ArrayField("boneMatrices", "float4x4", MAX_BONES) >>

Buffers == {"PerFrameConstants", "PerModelConstants"}

HostFields(b) == IF b = "PerFrameConstants" THEN PerFrameHost ELSE PerModelHost

ShaderFields(b) == IF b = "PerFrameConstants" THEN PerFrameShader ELSE PerModelShader

AlignUp(off, a) == ((off + a - 1) \div a) * a

\* C++: every member is made of floats, so it sits at the next multiple of
\* 4, and the elements of an array follow one another.
HostStride(f) == AlignUp(TypeSize(f.type), 4)

RECURSIVE HostOffset(_, _)
HostOffset(fields, k) ==
    IF k = 1 THEN 0
    ELSE AlignUp(HostOffset(fields, k - 1)
                     + fields[k - 1].count * HostStride(fields[k - 1]), 4)

\* HLSL: a matrix or an array element starts a 16-byte register; a scalar or
\* a vector starts one when it would otherwise straddle two.
ShaderStride(f) == IF f.count > 1 THEN AlignUp(TypeSize(f.type), 16) ELSE TypeSize(f.type)

ShaderPlace(end, f) ==
    IF f.type = "float4x4" \/ f.count > 1 \/ (end % 16) + TypeSize(f.type) > 16
    THEN AlignUp(end, 16)
    ELSE end

RECURSIVE ShaderOffset(_, _)
ShaderOffset(fields, k) ==
    ShaderPlace(IF k = 1 THEN 0
                ELSE ShaderOffset(fields, k - 1)
                         + (fields[k - 1].count - 1) * ShaderStride(fields[k - 1])
                         + TypeSize(fields[k - 1].type),
                fields[k])

\* The bytes of element e of field k: [lo, hi).
HostRange(b, k, e) ==
    LET f  == HostFields(b)[k]
        lo == HostOffset(HostFields(b), k) + e * HostStride(f)
    IN  [lo |-> lo, hi |-> lo + TypeSize(f.type)]

ShaderRange(b, k, e) ==
    LET f  == ShaderFields(b)[k]
        lo == ShaderOffset(ShaderFields(b), k) + e * ShaderStride(f)
    IN  [lo |-> lo, hi |-> lo + TypeSize(f.type)]

Disjoint(r, s) == r.hi <= s.lo \/ s.hi <= r.lo

FieldValues == {"A", "B"}

InitLayout ==
    /\ SceneAtRest
    /\ px = PxIdle
    /\ vx = VxIdle
    /\ \E b \in Buffers, v \in FieldValues :
           \E k \in 1..Len(HostFields(b)) :
               \E e \in 0..(HostFields(b)[k].count - 1) :
                   cb = [stage |-> "Input", buffer |-> b, k |-> k, e |-> e, value |-> v]
    /\ ig = IgIdle
    /\ wp = WpIdle

\* The host assigns the field; UpdateSubresource copies the structure's bytes.
HostStore ==
    /\ cb.stage = "Input"
    /\ cb' = [stage |-> "Stored", buffer |-> cb.buffer, k |-> cb.k, e |-> cb.e,
              value |-> cb.value,
              name |-> HostFields(cb.buffer)[cb.k].name,
              bytes |-> HostRange(cb.buffer, cb.k, cb.e)]
    /\ UNCHANGED <<frameVars, px, vx, ig, wp>>

\* The shader reads the field at the same place in its cbuffer's list.
ShaderLoad ==
    /\ cb.stage = "Stored"
    /\ cb.k <= Len(ShaderFields(cb.buffer))
    /\ cb' = [stage |-> "Loaded", buffer |-> cb.buffer, k |-> cb.k, e |-> cb.e,
              value |-> cb.value,
              name |-> cb.name, bytes |-> cb.bytes,
              as   |-> ShaderFields(cb.buffer)[cb.k].name,
              from |-> ShaderRange(cb.buffer, cb.k, cb.e),
              got  |-> IF ShaderRange(cb.buffer, cb.k, cb.e) = cb.bytes
                       THEN cb.value ELSE "Other"]
    /\ UNCHANGED <<frameVars, px, vx, ig, wp>>

NextLayout == HostStore \/ ShaderLoad

SpecLayout == InitLayout /\ [][NextLayout]_vars

-----------------------------------------------------------------------------
(* The water height control of UpdateScene (lines 731-735), run once on    *)
(* floats that are not whole: heights are in 2^-20 of a world unit and the *)
(* frame time in 2^-20 of a second, so that a height of 16 or more has an  *)
(* even number of units, one of 32 or more a multiple of 4, and so on. The *)
(* product 5.0f * frameTime is a float too, and is rounded when the frame  *)
(* time is 16 s or more, unless the build fuses it with the sum.           *)

WaterPlaneUnit == 2^20

\* gWater->Position().y on entry: 0, the starting height, the floats around
\* 16 and 32, two heights just above 16 whose last bits are lost three
\* binades up, a height below the ground.
WaterPlaneYs ==
    { 0, WaterYInit * WaterPlaneUnit, FloatSignificand - 1, FloatSignificand,
      FloatSignificand + 6, FloatSignificand + 24,
      2 * FloatSignificand - 2, 2 * FloatSignificand, -(2 * FloatSignificand - 2) }

\* frameTime: 0, one and three units, a sixtieth of a second, a second, and
\* 22.4 s, five times which is not a float.
WaterPlaneTimes == {0, 1, 3, WaterPlaneUnit \div 60, WaterPlaneUnit, 23488102}

InitWaterPlane ==
    /\ SceneAtRest
    /\ px = PxIdle
    /\ vx = VxIdle
    /\ cb = CbIdle
    /\ ig = IgIdle
    /\ \E y \in WaterPlaneYs, ft \in WaterPlaneTimes, period, comma \in BOOLEAN :
           wp = [stage |-> "Input", y0 |-> y, ft |-> ft, period |-> period, comma |-> comma]

\* Lines 731-735 of UpdateScene.
RunWaterPlane ==
    /\ wp.stage = "Input"
    /\ \E y \in WaterPlaneStep(wp.y0, wp.ft, wp.period, wp.comma) :
           wp' = [stage |-> "Done", y0 |-> wp.y0, ft |-> wp.ft,
                  period |-> wp.period, comma |-> wp.comma, y |-> y]
    /\ UNCHANGED <<frameVars, px, vx, cb, ig>>

NextWaterPlane == RunWaterPlane

SpecWaterPlane == InitWaterPlane /\ [][NextWaterPlane]_vars

-----------------------------------------------------------------------------
(* InitGeometry and ReleaseResources, call by call. A resource is named by *)
(* the global that points to it; live holds the globals that are not null. *)
(* Each call of InitGeometry succeeds or fails as its environment decides. *)

\* A call of InitGeometry: what it sets on success, the message on failure,
\* and the setup step it belongs to.
Setup(op, sets, error, step) == [op |-> op, sets |-> sets, error |-> error, step |-> step]

LoadMeshes ==
    [i \in 1..6 |->
        Setup("NewMesh",
              {<<"gSkyMesh", "gGroundMesh", "gTrollMesh", "gCrateMesh", "gLightMesh", "gWaterMesh">>[i]},
              "e.what()", "Meshes")]

LoadTextures ==
    [i \in 1..6 |->
        Setup("LoadTexture",
              << {"gSkyDiffuseSpecularMap", "gSkyDiffuseSpecularMapSRV"},
                 {"gGroundDiffuseSpecularMap", "gGroundDiffuseSpecularMapSRV"},
                 {"gTrollDiffuseSpecularMap", "gTrollDiffuseSpecularMapSRV"},
                 {"gCrateDiffuseSpecularMap", "gCrateDiffuseSpecularMapSRV"},
                 {"gLightDiffuseMap", "gLightDiffuseMapSRV"},
                 {"gWaterNormalMap", "gWaterNormalMapSRV"} >>[i],
              "Error loading textures", "Textures")]

\* A texture to render to, its render target view and its shader view.
CreateOffscreen(global, name) ==
    << Setup("CreateTexture2D", {global},
             "Error creating " \o name \o " texture", global),
       Setup("CreateRenderTargetView", {global \o "RenderTarget"},
             "Error creating " \o name \o " render target view", global \o "RenderTarget"),
       Setup("CreateShaderResourceView", {global \o "SRV"},
             "Error creating " \o name \o " shader resource view", global \o "SRV") >>

CreateConstantBuffers ==
    << Setup("CreateConstantBuffer", {"gPerFrameConstantBuffer"}, "", "ConstantBuffers"),
       Setup("CreateConstantBuffer", {"gPerModelConstantBuffer"}, "", "ConstantBuffers"),
       Setup("TestConstantBuffers", {}, "Error creating constant buffers", "ConstantBuffers") >>

InitGeometry ==
    LoadMeshes
    \o LoadTextures
    \o << Setup("CreateStates", {"States"}, "Error creating states", "States") >>
    \o CreateOffscreen("gReflection", "reflection")
    \o CreateOffscreen("gRefraction", "refraction")
    \o CreateOffscreen("gWaterHeight", "water height")
    \o << Setup("LoadShaders", {"Shaders"}, "Error loading shaders", "Shaders") >>
    \o CreateConstantBuffers

\* The messages a failed mesh constructor puts in its exception.
MeshErrors == {"Error loading mesh", "Error creating mesh buffers"}

IgStart ==
    [stage |-> "InitGeometry", pc |-> 1, result |-> "None", gLastError |-> "",
     live |-> {}, attempted |-> <<>>, failed |-> {}, released |-> <<>>]

InGeometry == ig.stage = "InitGeometry" /\ ig.pc \in 1..Len(InitGeometry)

Setting == InitGeometry[ig.pc]

\* The call succeeded, or failed without InitGeometry looking at its result yet.
Continued(ok) ==
    [ig EXCEPT !.pc = @ + 1,
               !.attempted = Append(@, ig.pc),
               !.live = IF ok THEN @ \union Setting.sets ELSE @,
               !.failed = IF ok THEN @ ELSE @ \union {ig.pc}]

Returning(result) == [ig EXCEPT !.stage = "Returned", !.result = result, !.pc = 0]

\* Mutant: the failure returns false and leaves gLastError as it was.
Failed_NoMessage(error) ==
    [Returning(FALSE) EXCEPT !.attempted = Append(@, ig.pc),
                             !.failed = @ \union {ig.pc}]

\* gLastError = ...; return false;
Failed(error) ==
    [Returning(FALSE) EXCEPT !.attempted = Append(@, ig.pc),
                             !.failed = @ \union {ig.pc},
                             !.gLastError = error]

IgCall(next) ==
    /\ ig' = next
    /\ UNCHANGED <<frameVars, px, vx, cb, wp>>

\* gXMesh = new Mesh(...), inside the try block.
NewMesh(ok, what) ==
    /\ InGeometry /\ Setting.op = "NewMesh"
    /\ IgCall(IF ok THEN Continued(TRUE) ELSE Failed(what))

\* if (!LoadTexture(...) || ...), if (!CreateStates()), if (FAILED(Create...)),
\* if (!LoadShaders()): on failure the message is set and false returned.
SetupCall(ok) ==
    /\ InGeometry
    /\ Setting.op \in {"LoadTexture", "CreateStates", "CreateTexture2D",
                       "CreateRenderTargetView", "CreateShaderResourceView", "LoadShaders"}
    /\ IgCall(IF ok THEN Continued(TRUE) ELSE Failed(Setting.error))

\* gPerXConstantBuffer = CreateConstantBuffer(...): null on failure.
CreateConstantBuffer(ok) ==
    /\ InGeometry /\ Setting.op = "CreateConstantBuffer"
    /\ IgCall(Continued(ok))

\* if (gPerFrameConstantBuffer == nullptr || gPerModelConstantBuffer == nullptr)
TestConstantBuffers ==
    /\ InGeometry /\ Setting.op = "TestConstantBuffers"
    /\ IgCall(IF {"gPerFrameConstantBuffer", "gPerModelConstantBuffer"} \subseteq ig.live
              THEN Returning(TRUE)
              ELSE [Returning(FALSE) EXCEPT !.gLastError = Setting.error])

\* A call of ReleaseResources on a global.
Freeing(op, global) == [op |-> op, global |-> global]

ReleaseResources ==
    << Freeing("ReleaseStates", "States") >>
    \o [i \in 1..23 |->
           Freeing("Release",
                   << "gRefractionRenderTarget", "gRefractionSRV", "gRefraction",
                      "gReflectionRenderTarget", "gReflectionSRV", "gReflection",
                      "gWaterHeightRenderTarget", "gWaterHeightSRV", "gWaterHeight",
                      "gWaterNormalMapSRV", "gWaterNormalMap",
                      "gLightDiffuseMapSRV", "gLightDiffuseMap",
                      "gCrateDiffuseSpecularMapSRV", "gCrateDiffuseSpecularMap",
                      "gTrollDiffuseSpecularMapSRV", "gTrollDiffuseSpecularMap",
                      "gGroundDiffuseSpecularMapSRV", "gGroundDiffuseSpecularMap",
                      "gSkyDiffuseSpecularMapSRV", "gSkyDiffuseSpecularMap",
                      "gPerModelConstantBuffer", "gPerFrameConstantBuffer" >>[i])]
    \o << Freeing("ReleaseShaders", "Shaders") >>
    \o [i \in 1..NUM_LIGHTS |->
           Freeing("delete", << "gLights[0].model", "gLights[1].model" >>[i])]
    \o [i \in 1..12 |->
           Freeing("delete",
                   << "gCamera", "gWater", "gCrate", "gTroll", "gGround", "gSky",
                      "gWaterMesh", "gLightMesh", "gCrateMesh", "gTrollMesh",
                      "gGroundMesh", "gSkyMesh" >>[i])]

InRelease == ig.stage = "ReleaseResources" /\ ig.pc \in 1..Len(ReleaseResources)

Freed == ReleaseResources[ig.pc]

\* The next call of ReleaseResources, or its return.
Released(next) ==
    IF ig.pc = Len(ReleaseResources)
    THEN [next EXCEPT !.stage = "Released", !.pc = 0]
    ELSE [next EXCEPT !.pc = @ + 1]

\* The models and the camera InitScene creates.
SceneObjects ==
    {"gSky", "gGround", "gTroll", "gCrate", "gWater",
     "gLights[0].model", "gLights[1].model", "gCamera"}

\* InitScene(), called once InitGeometry has returned true: the models are
\* made from the meshes InitGeometry loaded, the water is put at its height
\* and the camera in its pose.
InitScene ==
    /\ ig.stage = "Returned"
    /\ ig.result = TRUE
    /\ ig' = [ig EXCEPT !.stage = "SceneReady", !.live = @ \union SceneObjects]
    /\ camera' = StartPose
    /\ waterY' = WaterYInit
    /\ UNCHANGED <<pc, log, gpu, originalMatrix, entryMatrix, pfc, waveScale, waterPos,
                   upd, rf, px, vx, cb, wp>>

\* ReleaseResources is called once InitGeometry has returned, whatever it
\* returned, with the scene built or not.
ReleaseResourcesBegin ==
    /\ ig.stage \in {"Returned", "SceneReady"}
    /\ IgCall([ig EXCEPT !.stage = "ReleaseResources", !.pc = 1])

\* ReleaseStates(): releases the states CreateStates created.
ReleaseStates ==
    /\ InRelease /\ Freed.op = "ReleaseStates"
    /\ IgCall(Released([ig EXCEPT !.released =
                            IF Freed.global \in ig.live THEN Append(@, Freed.global) ELSE @]))

\* ReleaseShaders(): releases the shaders LoadShaders created.
ReleaseShaders ==
    /\ InRelease /\ Freed.op = "ReleaseShaders"
    /\ IgCall(Released([ig EXCEPT !.released =
                            IF Freed.global \in ig.live THEN Append(@, Freed.global) ELSE @]))

\* Mutant: gX->Release() without the test of the pointer.
Release_Unchecked ==
    /\ InRelease /\ Freed.op = "Release"
    /\ IgCall(Released([ig EXCEPT !.released = Append(@, Freed.global)]))

\* if (gX)  gX->Release();  the pointer keeps its value.
Release ==
    /\ InRelease /\ Freed.op = "Release"
    /\ IgCall(Released([ig EXCEPT !.released =
                            IF Freed.global \in ig.live THEN Append(@, Freed.global) ELSE @]))

\* delete gX;  gX = nullptr;  Deleting a null pointer does nothing; after it
\* the scene has no camera and no water.
Delete ==
    /\ InRelease /\ Freed.op = "delete"
    /\ ig' = Released([ig EXCEPT !.released =
                          IF Freed.global \in ig.live THEN Append(@, Freed.global) ELSE @,
                                !.live = @ \ {Freed.global}])
    /\ camera' = IF Freed.global = "gCamera" THEN Null ELSE camera
    /\ waterY' = IF Freed.global = "gWater" THEN Null ELSE waterY
    /\ UNCHANGED <<pc, log, gpu, originalMatrix, entryMatrix, pfc, waveScale, waterPos,
                   upd, rf, px, vx, cb, wp>>

\* Before InitGeometry is called: the globals of Scene.cpp as they are
\* initialised, with no camera and no water model yet.
InitInitGeometry ==
    /\ pc = 0
    /\ log = <<>>
    /\ gpu = InitialContext
    /\ camera = Null
    /\ originalMatrix = ZeroMatrix
    /\ entryMatrix = ZeroMatrix
    /\ pfc = [ cameraMatrix   |-> ZeroMatrix,
               cameraPosition |-> Vec(0, 0, 0),
               waterPlaneY    |-> 0,
               waveScale      |-> 0,
               waterMovement  |-> Vec2(0, 0) ]
    /\ waterY = Null
    /\ waveScale = WaveScaleInit
    /\ waterPos = Vec2(0, 0)
    /\ upd = [called |-> FALSE, accum |-> WaveScaleInit, elapsed |-> 0]
    /\ rf = RfIdle
    /\ px = PxIdle
    /\ vx = VxIdle
    /\ cb = CbIdle
    /\ wp = WpIdle
    /\ ig = IgStart

NextInitGeometry ==
    \/ \E ok \in BOOLEAN, what \in MeshErrors : NewMesh(ok, what)
    \/ \E ok \in BOOLEAN : SetupCall(ok)
    \/ \E ok \in BOOLEAN : CreateConstantBuffer(ok)
    \/ TestConstantBuffers
    \/ InitScene
    \/ ReleaseResourcesBegin
    \/ ReleaseStates
    \/ Release
    \/ ReleaseShaders
    \/ Delete

SpecInitGeometry == InitInitGeometry /\ [][NextInitGeometry]_vars

\* The setup steps InitGeometry goes through, in order.
SetupSteps == [i \in 1..Len(InitGeometry) |-> InitGeometry[i].step]

\* The first call that failed, 0 if none did.
FirstFailed == IF ig.failed = {} THEN 0
               ELSE CHOOSE c \in ig.failed : \A d \in ig.failed : c <= d

-----------------------------------------------------------------------------
(* Reading the log.                                                        *)

Offscreen == {"WaterHeight", "Refraction", "Reflection"}

\* The call just made, with the bindings it was made under.
Last == log[Len(log)]

\* The state right after a draw call.
DrawSeen == log # <<>> /\ Last.op = "Render"

\* Some call of the frame so far.
Called(op, s) == \E i \in 1..Len(log) : log[i].op = op /\ log[i].s = s

\* Some draw of the frame so far into the given target.
DrawnInto(rt) == \E i \in 1..Len(log) : log[i].op = "Render" /\ log[i].rt = rt

IsPrefix(a, b) == Len(a) <= Len(b) /\ SubSeq(b, 1, Len(a)) = a

IsPassMark(e) == e.op \in {"OMSetRenderTargets", "Present"}

\* The render targets selected in the frame so far, and Present, in order.
PassNames ==
    LET marks == SelectSeq(log, IsPassMark)
    IN  [i \in 1..Len(marks) |-> IF marks[i].op = "Present" THEN "Present" ELSE marks[i].s]

FrameOrder == <<"WaterHeight", "Refraction", "Reflection", "BackBuffer", "Present">>

\* RenderScene has returned and its log is still here.
FrameDone == pc = 0 /\ log # <<>>

\* This frame started from the context an earlier frame left.
LaterFrame == log # <<>> /\ log[1].cull = "CullBack"

\* RenderSceneFromCamera has returned: Present is the next call.
Returned == InFrame /\ Current.op = "Present"

\* The camera is the mirrored one.
Mirrored == InFrame /\ Called("ReflectWorldMatrix", "") /\ ~Called("RestoreWorldMatrix", "")

-----------------------------------------------------------------------------
(* C1.  At every draw call, in every frame, the render target is not one   *)
(* of the views bound to pixel-shader slots 2, 3 and 4: no offscreen       *)
(* buffer is written and sampled by the same draw.                         *)
C1_NoTargetSampled ==
    DrawSeen => /\ Last.rt \notin {Last.s2, Last.s3, Last.s4}
                /\ {Last.s2, Last.s3, Last.s4} \subseteq Offscreen \cup {Null}

\* The height pass of a later frame draws into the buffer the frame before
\* sampled from slot 2.
C1_Witness ==
    /\ DrawSeen
    /\ LaterFrame
    /\ Last.rt = "WaterHeight"
    /\ Last.s2 = Null

(* C2.  A frame selects the height, refraction, reflection and back-buffer *)
(* targets once each in this order and then presents once, draws into      *)
(* each of the four, and does so whatever the frames before left behind.   *)
C2_PassOrder ==
    /\ IsPrefix(PassNames, FrameOrder)
    /\ DrawSeen => Last.rt = PassNames[Len(PassNames)]
    /\ FrameDone => /\ PassNames = FrameOrder
                    /\ \A t \in Offscreen \cup {"BackBuffer"} : DrawnInto(t)

C2_Witness == FrameDone /\ LaterFrame /\ PassNames = FrameOrder

(* C3.  The height buffer is in slot 2 only once the height pass has drawn *)
(* the water and no draw into it follows; every refraction draw sees it    *)
(* there.  The refraction and reflection buffers are in slots 3 and 4 only *)
(* once both passes have drawn and the back buffer is the target; the      *)
(* composite water draw sees them there.                                   *)
C3_SampledAfterWritten ==
    /\ gpu.srv[2] = "WaterHeight" =>
           /\ DrawnInto("WaterHeight")
           /\ gpu.rt # "WaterHeight"
    /\ (gpu.srv[3] # Null \/ gpu.srv[4] # Null) =>
           /\ DrawnInto("Refraction")
           /\ DrawnInto("Reflection")
           /\ gpu.rt = "BackBuffer"
    /\ (DrawSeen /\ Last.rt = "Refraction") => Last.s2 = "WaterHeight"
    /\ (DrawSeen /\ Last.rt = "BackBuffer" /\ Last.s = "Water") =>
           Last.s3 = "Refraction" /\ Last.s4 = "Reflection"

C3_Witness ==
    /\ DrawSeen
    /\ LaterFrame
    /\ Last.rt = "BackBuffer"
    /\ Last.s = "Water"
    /\ Last.s3 = "Refraction"
    /\ Last.s4 = "Reflection"

(* C4.  When RenderSceneFromCamera returns, the camera's world matrix is   *)
(* the one it was entered with, for every pose and water height.           *)
C4_CameraRestored == Returned => camera = entryMatrix

\* A pose whose mirror image is not a float: mirroring it back would not
\* give it again.
C4_Witness ==
    /\ Returned
    /\ camera = entryMatrix
    /\ RoundF(2 * waterY - camera.position.y) # 2 * waterY - camera.position.y

\* Whether the mirrored height is a float, so that no rounding takes place.
ReflectExact(m, planeY) == RoundF(2 * planeY - m.position.y) = 2 * planeY - m.position.y

(* C5, as stated.  Reflecting twice in the same plane gives the pose       *)
(* back, for every pose and plane height.                                  *)
C5_Original == rf.n = 2 => rf.pose = rf.start

(* C5, amended.  Reflecting twice in the same plane gives the three axes   *)
(* back, and the whole pose whenever 2*y - position.y is a float.          *)
C5_ReflectTwice ==
    rf.n = 2 =>
        /\ rf.pose.xAxis = rf.start.xAxis
        /\ rf.pose.yAxis = rf.start.yAxis
        /\ rf.pose.zAxis = rf.start.zAxis
        /\ rf.pose.position.x = rf.start.position.x
        /\ rf.pose.position.z = rf.start.position.z
        /\ ReflectExact(rf.start, rf.planeY) => rf.pose = rf.start

C5_Witness ==
    /\ rf.n = 2
    /\ rf.start.position.y = 50
    /\ rf.start.zAxis.y = -18497710
    /\ rf.planeY = 10
    /\ rf.pose = rf.start

(* C6.  While the camera is mirrored it differs from the saved matrix, the *)
(* one the scene was entered with, in the y of its three axes, negated,    *)
(* and in position.y, which is the float 2*waterY - position.y; waterY is  *)
(* the water model's height.                                               *)
C6_MirroredPose ==
    Mirrored =>
        /\ originalMatrix = entryMatrix
        /\ camera.xAxis = [originalMatrix.xAxis EXCEPT !.y = -@]
        /\ camera.yAxis = [originalMatrix.yAxis EXCEPT !.y = -@]
        /\ camera.zAxis = [originalMatrix.zAxis EXCEPT !.y = -@]
        /\ camera.position =
               [originalMatrix.position EXCEPT !.y = RoundF(2 * waterY - @)]

C6_Witness ==
    /\ Mirrored
    /\ DrawSeen
    /\ originalMatrix = StartPose
    /\ camera.yAxis.y = -64509180
    /\ camera.zAxis.y = 18497710
    /\ camera.position.y = 2 * waterY - 50

(* C7.  After UpdateScene the published waveScale is never negative: it is *)
(* 0 when the keys took the value below 0 and the value itself otherwise,  *)
(* and the static waveScale is that same value, so that Plus raises it     *)
(* from 0.                                                                 *)
C7_WaveScaleClamped ==
    upd.called =>
        /\ pfc.waveScale >= 0
        /\ pfc.waveScale = IF upd.accum < 0 THEN 0 ELSE upd.accum
        /\ waveScale = pfc.waveScale

\* 0.5 is reached only from a clamped 0: without the clamp the values are
\* 0.6f plus or minus multiples of 0.5.
C7_Witness == upd.called /\ pfc.waveScale = WaveScaleOne \div 2 /\ upd.accum = WaveScaleOne \div 2

(* C8.  Every draw comes after a clear of the depth buffer that follows    *)
(* the selection of the draw's render target, so the depth buffer a draw   *)
(* tests against holds only the cleared value or depths of its own pass.   *)
C8_DepthFresh ==
    DrawSeen =>
        /\ Last.depth \in {"Cleared", Last.rt}
        /\ \E j \in 1..Len(log) :
               /\ log[j].op = "ClearDepthStencilView"
               /\ \A k \in j..Len(log) : log[k].op # "OMSetRenderTargets"
               /\ \E k \in 1..j : log[k].op = "OMSetRenderTargets" /\ log[k].s = Last.rt

C8_Witness ==
    /\ DrawSeen
    /\ LaterFrame
    /\ Last.rt = "BackBuffer"
    /\ Last.s = "Ground"
    /\ Last.depth = "Cleared"

LitModels == {"Ground", "Troll", "Crate"}

(* C9, as stated.  Every draw of the reflection pass is made with          *)
(* front-face culling and every draw of the other passes with back-face    *)
(* culling.                                                                *)
C9_Original ==
    DrawSeen => Last.cull = IF Last.rt = "Reflection" THEN "CullFront" ELSE "CullBack"

(* C9, amended.  The ground, troll and crate are drawn with front-face     *)
(* culling in the reflection pass and with back-face culling in the        *)
(* refraction and composite passes, and the water with back-face culling;  *)
(* the sky and the lights are drawn with culling off in every pass.        *)
C9_Culling ==
    DrawSeen =>
        Last.cull = IF Last.s \in {"Sky", "Light"} THEN "CullNone"
                    ELSE IF Last.rt = "Reflection" THEN "CullFront"
                    ELSE "CullBack"

C9_Witness ==
    /\ DrawSeen
    /\ Last.rt = "Reflection"
    /\ Last.s = "Troll"
    /\ Last.cull = "CullFront"

(* C10.  Present is called, and the next frame's height target selected,   *)
(* with nothing bound to pixel-shader slots 2, 3 and 4.                    *)
C10_SlotsDetached ==
    LET detached == gpu.srv[2] = Null /\ gpu.srv[3] = Null /\ gpu.srv[4] = Null
    IN  /\ Returned => detached
        /\ pc = 0 => detached
        /\ (InFrame /\ Current.op = "OMSetRenderTargets" /\ Current.s = "WaterHeight")
               => detached

C10_Witness ==
    /\ Returned
    /\ LaterFrame
    /\ Called("PSSetShaderResources", "Reflection")
    /\ gpu.srv[4] = Null

-----------------------------------------------------------------------------
(* The refraction pass's pixel shader.                                     *)

\* C11: a pixel of the refraction pass is discarded exactly when the sampled
\* water height minus the pixel's world Y is below zero; a pixel at the
\* water's height (depth 0) is kept.
C11_ClipBelowDepthZero ==
    px.stage = "Output" =>
        /\ px.out.discarded <=> (px.waterHeight - px.worldY < 0)
        /\ (px.waterHeight = px.worldY) => ~px.out.discarded

C11_Witness ==
    /\ PixelWritten
    /\ px.waterHeight = 10
    /\ px.worldY = 10
    /\ px.out.depth = 0

\* The depths the darkening and the alpha are compared over.
Depths == 0..60

\* C12: for depth >= 0 the darken factor of each channel is
\* min(depth / extinction, 1) with extinction (9, 7, 3): in [0, 1],
\* non-decreasing in depth, 1 exactly from the channel's own extinction
\* distance on, and (5/9, 5/7, 1) at depth 5.
C12_DarkenByDepth ==
    PixelWritten =>
        LET d == px.waterHeight - px.worldY
            extinction == <<9, 7, 3>>
        IN  /\ \A c \in Channels :
                   LET f == px.out.darken[c]
                   IN  /\ FracEq(f, IF d >= extinction[c] THEN Frac(1, 1)
                                                          ELSE Frac(d, extinction[c]))
                       /\ FracLe(Frac(0, 1), f) /\ FracLe(f, Frac(1, 1))
                       /\ FracEq(f, Frac(1, 1)) <=> (d >= extinction[c])
                       /\ \A e \in Depths :
                              /\ e >= d => FracLe(f, DepthDarken(e)[c])
                              /\ e <= d => FracLe(DepthDarken(e)[c], f)
            /\ d = 5 => /\ FracEq(px.out.darken[1], Frac(5, 9))
                        /\ FracEq(px.out.darken[2], Frac(5, 7))
                        /\ FracEq(px.out.darken[3], Frac(1, 1))

C12_Witness ==
    /\ PixelWritten
    /\ px.out.depth = 5
    /\ px.out.darken = <<Frac(5, 9), Frac(5, 7), Frac(3, 3)>>

\* C13: the alpha the shader writes is min(depth / 40, 1): 0 at depth 0,
\* non-decreasing in depth, and 1 from depth 40 on; the 8-bit value kept in
\* the refraction texture is 0 at depth 0, non-decreasing, and 255 from
\* depth 40 on.
C13_AlphaByDepth ==
    PixelWritten =>
        LET d == px.waterHeight - px.worldY
            a == px.out.alpha
        IN  /\ FracEq(a, IF d >= 40 THEN Frac(1, 1) ELSE Frac(d, 40))
            /\ d = 0 => FracEq(a, Frac(0, 1)) /\ px.out.stored.a = 0
            /\ d >= 40 => FracEq(a, Frac(1, 1)) /\ px.out.stored.a = 255
            /\ \A e \in Depths :
                   e >= d => /\ FracLe(a, RefractionAlpha(e))
                             /\ px.out.stored.a <= Unorm8(RefractionAlpha(e))

C13_Witness ==
    /\ PixelWritten
    /\ px.out.depth = 40
    /\ px.out.alpha = Frac(40, 40)
    /\ px.out.stored.a = 255

\* C14: where no water was drawn (the height map holds its cleared value,
\* 0), a pixel of the refraction pass is written with its lit colour
\* unchanged, darken factor 0, whatever its world Y.
C14_NoWaterNoDarkening ==
    (px.stage = "Output" /\ px.waterHeight = 0) =>
        /\ ~px.out.discarded
        /\ \A c \in Channels : px.out.darken[c].n = 0
        /\ \A c \in Channels : FracEq(px.out.colour[c], Frac(px.scene[c], 1000))

-----------------------------------------------------------------------------
(* The water surface's vertex shader.                                      *)

\* The layers' sample coordinates are size * (uv + movement * speed) for the
\* pairs (0.5, 0.5), (1, 1), (2, 1.7) and (4, 2.6).
SampledAsSpecified ==
    LET pairs == << <<1, 5>>, <<2, 10>>, <<4, 17>>, <<8, 26>> >>
    IN  \A i \in 1..4 :
            /\ vx.out.sampleUV[i].x =
                   pairs[i][1] * (1000 * vx.uv.x + vx.movement.x * pairs[i][2])
            /\ vx.out.sampleUV[i].y =
                   pairs[i][1] * (1000 * vx.uv.y + vx.movement.y * pairs[i][2])

\* C15 as stated: the four samples are taken at size * (uv + movement *
\* speed) and their sum is the same in whatever order they are added.
C15_Original ==
    vx.stage = "Output" =>
        /\ SampledAsSpecified
        /\ \A p \in Orders : SumInOrder(vx.out.normal, p) = vx.out.height

\* C15: the four samples are taken at size * (uv + movement * speed) for
\* the four pairs; their sum is the same in every order in which no partial
\* sum is rounded, provided the shader's own order rounds none, and in any
\* case two orders differ by no more than 6 * 2^-23.
C15_SumOfFourSamples ==
    vx.stage = "Output" =>
        /\ SampledAsSpecified
        /\ \A p \in Orders :
               /\ (SumsExactly(vx.out.normal, p) /\ SumsExactly(vx.out.normal, <<1, 2, 3, 4>>))
                      => SumInOrder(vx.out.normal, p) = vx.out.height
               /\ Abs(SumInOrder(vx.out.normal, p) - vx.out.height) <= 6

C15_Witness ==
    /\ vx.stage = "Output"
    /\ vx.tex = "Swell"
    /\ vx.out.normal = <<8339842, 8340757, 8344048, 8355552>>
    /\ vx.out.height = 33380200
    /\ SumInOrder(vx.out.normal, <<4, 3, 2, 1>>) = 33380198

\* C16: the Y offset is (0.25 * (h1 + h2 + h3 + h4) - 0.5) * MaxWaveHeight *
\* waveScale with MaxWaveHeight = 400 / 32: within [-0.5, +0.5] *
\* MaxWaveHeight * waveScale, the two ends reached by heights all 0 and all
\* 1 and the rest height by heights all 0.5, and 0 when waveScale is 0.
C16_WaveOffset ==
    vx.stage = "Output" =>
        LET o     == vx.out.offsetY
            half  == FloatSignificand        \* 0.5, in 2^-25
            bound == half * 25 * vx.scale    \* 0.5 * 12.5 * waveScale, in 2^-27
        IN  /\ o = RoundF(RoundF((vx.out.height - half) * 25) * vx.scale)
            /\ MaxWaveHeight * 32 = 2 * 400
            /\ -bound <= o /\ o <= bound
            /\ vx.scale = 0 => o = 0
            /\ vx.tex = "Crest" => o = bound
            /\ vx.tex = "Trough" => o = -bound
            /\ vx.tex = "Calm" => o = 0

C16_Witness ==
    /\ vx.stage = "Output"
    /\ vx.tex = "Crest"
    /\ vx.scale = 3
    /\ vx.out.offsetY = 3 * 25 * FloatSignificand

-----------------------------------------------------------------------------
(* The constant buffers.                                                   *)

\* C17: every field of the host's PerFrameConstants and PerModelConstants
\* sits at the byte offset and has the size of the shader's field of the
\* same name under 16-byte register packing, so the shader loads what the
\* host stored, and no two fields of a buffer overlap on either side.
C17_LayoutsAgree ==
    cb.stage = "Loaded" =>
        /\ cb.as = cb.name
        /\ cb.from.lo = cb.bytes.lo
        /\ cb.from.hi - cb.from.lo = cb.bytes.hi - cb.bytes.lo
        /\ cb.got = cb.value
        /\ cb.from.lo \div 16 = (cb.from.hi - 1) \div 16 \/ cb.from.lo % 16 = 0
        /\ Len(HostFields(cb.buffer)) = Len(ShaderFields(cb.buffer))
        /\ ShaderFields(cb.buffer)[cb.k].count = HostFields(cb.buffer)[cb.k].count
        /\ \A j \in 1..Len(HostFields(cb.buffer)) :
               \A e \in 0..(HostFields(cb.buffer)[j].count - 1) :
                   <<j, e>> # <<cb.k, cb.e>> =>
                       /\ Disjoint(HostRange(cb.buffer, j, e), cb.bytes)
                       /\ Disjoint(ShaderRange(cb.buffer, j, e), cb.from)

C17_Witness ==
    /\ cb.stage = "Loaded"
    /\ cb.buffer = "PerFrameConstants"
    /\ cb.name = "waterMovement"
    /\ cb.from = [lo |-> 360, hi |-> 368]
    /\ cb.got = cb.value

-----------------------------------------------------------------------------
(* InitGeometry.                                                           *)

\* C18: InitGeometry returns true exactly when every setup step succeeded;
\* when a step fails it returns false with gLastError a non-empty message
\* of that step, having attempted no call of a later step and no call
\* twice.
C18_InitGeometryResult ==
    /\ \A i, j \in 1..Len(ig.attempted) : i < j => ig.attempted[i] < ig.attempted[j]
    /\ ig.stage # "InitGeometry" =>
           /\ ig.result = TRUE <=> ig.failed = {}
           /\ ig.result = TRUE =>
                  /\ Len(ig.attempted) = Len(InitGeometry) - 1
                  /\ ig.gLastError = ""
           /\ ig.result = FALSE =>
                  LET step == SetupSteps[FirstFailed]
                  IN  /\ ig.gLastError # ""
                      /\ \/ ig.gLastError = InitGeometry[FirstFailed].error
                         \/ step = "Meshes" /\ ig.gLastError \in MeshErrors
                         \/ step = "ConstantBuffers"
                                /\ ig.gLastError = "Error creating constant buffers"
                      /\ \A i \in 1..Len(ig.attempted) :
                             \/ ig.attempted[i] <= FirstFailed
                             \/ SetupSteps[ig.attempted[i]] = step

C18_Witness ==
    /\ ig.stage = "Returned"
    /\ ig.result = FALSE
    /\ ig.failed = {17}
    /\ ig.gLastError = "Error creating refraction texture"
    /\ Len(ig.attempted) = 17
    /\ "gReflectionSRV" \in ig.live

-----------------------------------------------------------------------------
(* The water state across RenderScene and UpdateScene.                     *)

\* C19: no step of RenderScene, or of anything it calls, changes the water
\* state: waterPlaneY, waveScale and waterMovement in the per-frame
\* constants and the height of the water model are after the call what they
\* were before it.
C19_RenderKeepsWater ==
    [][ (pc > 0 \/ pc' > 0) =>
            /\ pfc'.waterPlaneY = pfc.waterPlaneY
            /\ pfc'.waveScale = pfc.waveScale
            /\ pfc'.waterMovement = pfc.waterMovement
            /\ waterY' = waterY
            /\ waveScale' = waveScale
            /\ waterPos' = waterPos ]_vars

C19_Witness ==
    /\ Returned
    /\ waterY = 20
    /\ pfc.waterPlaneY = 20
    /\ pfc.waveScale = WaveScaleInit + WaveScaleOne \div 2
    /\ pfc.waterMovement = Vec2(2 * WaterVelocityX, 2 * WaterVelocityY)

\* C20 as stated: a call of UpdateScene with frame time ft >= 0 publishes a
\* waterMovement that has grown by exactly ft * 0.01f in x and ft * 0.015f in
\* y, whatever keys are held.
C20_Original ==
    [][ (pc = 0 /\ pc' = 0) =>
            \A ft \in FrameTimes :
                waterPos' = WaterMove(waterPos, ft) =>
                    \A plus, minus \in BOOLEAN :
                        waveScale' = WaveScaleStep(waveScale, ft, plus, minus) =>
                            \A period, comma \in BOOLEAN :
                                UpdateScene(ft, period, comma, plus, minus, camera') =>
                                    /\ pfc'.waterMovement.x = pfc.waterMovement.x + ft * WaterVelocityX
                                    /\ pfc'.waterMovement.y = pfc.waterMovement.y + ft * WaterVelocityY ]_vars

\* C20: a call of UpdateScene with frame time ft >= 0 publishes a
\* waterMovement whose components are the floats nearest to the old
\* component plus ft * 0.01f (x) and plus ft * 0.015f (y), whatever keys are
\* held: the growth is exactly that product whenever the sum is a float, and
\* neither component ever decreases, is reset or wraps.
C20_WaterMovementGrows ==
    [][ (pc = 0 /\ pc' = 0) =>
            \A ft \in FrameTimes :
                waterPos' = WaterMove(waterPos, ft) =>
                    \A plus, minus \in BOOLEAN :
                        waveScale' = WaveScaleStep(waveScale, ft, plus, minus) =>
                            \A period, comma \in BOOLEAN :
                                UpdateScene(ft, period, comma, plus, minus, camera') =>
                                    LET x == pfc.waterMovement.x + RoundF(ft * WaterVelocityX)
                                        y == pfc.waterMovement.y + RoundF(ft * WaterVelocityY)
                                    IN  /\ pfc'.waterMovement.x = RoundF(x)
                                        /\ pfc'.waterMovement.y = RoundF(y)
                                        /\ Representable(pfc.waterMovement.x + ft * WaterVelocityX) =>
                                               pfc'.waterMovement.x = pfc.waterMovement.x + ft * WaterVelocityX
                                        /\ Representable(pfc.waterMovement.y + ft * WaterVelocityY) =>
                                               pfc'.waterMovement.y = pfc.waterMovement.y + ft * WaterVelocityY
                                        /\ pfc'.waterMovement.x >= pfc.waterMovement.x
                                        /\ pfc'.waterMovement.y >= pfc.waterMovement.y ]_vars

\* Three seconds: the third has moved y by one unit less than 0.015f.
C20_Witness ==
    /\ upd.called
    /\ pc = 0
    /\ pfc.waterMovement = Vec2(3 * WaterVelocityX, 3 * WaterVelocityY - 1)
    /\ waterY = WaterYInit

-----------------------------------------------------------------------------
(* The offscreen buffers within a frame.                                   *)

\* The value a buffer is cleared to.
ClearValue(rt) == IF rt = "WaterHeight" THEN "Zero" ELSE "Background"

\* In the frame so far the buffer was cleared to its value before anything
\* was drawn into it.
ClearedFirst(rt) ==
    \E i \in 1..Len(log) :
        /\ log[i].op = "ClearRenderTargetView"
        /\ log[i].s = rt
        /\ log[i].t = ClearValue(rt)
        /\ \A j \in 1..i : ~(log[j].op = "Render" /\ log[j].rt = rt)

\* C21: in every frame an offscreen buffer is cleared, the height buffer to
\* zero and the refraction and reflection buffers to the background colour,
\* before the first draw into it, and so before any draw samples it.
C21_ClearedBeforeDrawn ==
    DrawSeen =>
        /\ Last.rt \in Offscreen => ClearedFirst(Last.rt)
        /\ \A v \in {Last.s2, Last.s3, Last.s4} : v # Null => ClearedFirst(v)

C21_Witness ==
    /\ DrawSeen
    /\ LaterFrame
    /\ Last.rt = "BackBuffer"
    /\ Last.s = "Water"
    /\ Last.s3 = "Refraction"
    /\ Last.s4 = "Reflection"
    /\ ClearedFirst("Refraction")
    /\ ClearedFirst("Reflection")

\* C22: every draw of the refraction and reflection passes is made with the
\* height buffer's view in pixel-shader slot 2, and every draw of the
\* height and composite passes with nothing in slot 2.
C22_HeightMapInSlot2 ==
    DrawSeen =>
        Last.s2 = IF Last.rt \in {"Refraction", "Reflection"} THEN "WaterHeight" ELSE Null

C22_Witness ==
    /\ DrawSeen
    /\ LaterFrame
    /\ Last.rt = "Reflection"
    /\ Last.s = "Sky"
    /\ Last.s2 = "WaterHeight"

-----------------------------------------------------------------------------
(* The camera in the per-frame constants.                                  *)

\* How many times SelectCamera has been called in the frame so far.
CamerasSelected == Len(SelectSeq(log, LAMBDA e : e.op = "SelectCamera"))

\* C23: the camera matrices in the per-frame constants are those of the
\* unmirrored camera during every draw of the height, refraction and
\* composite passes, and the mirrored ones exactly from the reflection
\* pass's SelectCamera until the SelectCamera that restores them.
C23_CameraMatricesByPass ==
    LET mirrored == ReflectCamera(entryMatrix, waterY)
    IN  /\ DrawSeen =>
               pfc.cameraMatrix = IF Last.rt = "Reflection" THEN mirrored ELSE entryMatrix
        /\ (InFrame /\ CamerasSelected >= 1) =>
               /\ pfc.cameraMatrix = IF CamerasSelected = 2 THEN mirrored ELSE entryMatrix
               /\ mirrored # entryMatrix

C23_Witness ==
    /\ DrawSeen
    /\ Last.rt = "BackBuffer"
    /\ Last.s = "Water"
    /\ CamerasSelected = 3
    /\ pfc.cameraMatrix = entryMatrix
    /\ entryMatrix.position.y = 4

\* C27: cameraPosition in the per-frame constants is the unmirrored
\* camera's position all through the frame: RenderScene writes it and no
\* SelectCamera changes it, so the reflection pass is drawn with the
\* mirrored matrices and the unmirrored position.
C27_CameraPositionUnmirrored ==
    InFrame =>
        /\ pfc.cameraPosition = entryMatrix.position
        /\ (DrawSeen /\ Last.rt = "Reflection") =>
               /\ pfc.cameraMatrix.position = ReflectCamera(entryMatrix, waterY).position
               /\ pfc.cameraMatrix.position # pfc.cameraPosition

C27_Witness ==
    /\ DrawSeen
    /\ Last.rt = "Reflection"
    /\ Last.s = "Troll"
    /\ pfc.cameraPosition = Vec(-80, 50, 200)
    /\ pfc.cameraMatrix.position = Vec(-80, -30, 200)

-----------------------------------------------------------------------------
(* The composite pass and the states around the sky and the lights.        *)

IsCompositeDraw(e) == e.op = "Render" /\ e.rt = "BackBuffer"

\* The models drawn into the back buffer in the frame so far, in order.
CompositeDraws ==
    LET draws == SelectSeq(log, IsCompositeDraw)
    IN  [i \in 1..Len(draws) |-> draws[i].s]

CompositeOrder ==
    <<"Ground", "Troll", "Crate", "Water", "Sky">> \o [i \in 1..NUM_LIGHTS |-> "Light"]

\* C24: the composite pass draws the lit models, then the water surface,
\* then the sky and the lights; the refraction and reflection views are in
\* slots 3 and 4 at the water draw and at no other draw of the pass.
C24_CompositeOrderAndSlots ==
    /\ IsPrefix(CompositeDraws, CompositeOrder)
    /\ (DrawSeen /\ Last.rt = "BackBuffer") =>
           IF Last.s = "Water"
           THEN Last.s3 = "Refraction" /\ Last.s4 = "Reflection"
           ELSE Last.s3 = Null /\ Last.s4 = Null

C24_Witness ==
    /\ LaterFrame
    /\ DrawSeen
    /\ Last.s = "Light"
    /\ Last.s3 = Null
    /\ CompositeDraws = CompositeOrder

\* The call just logged is the last one of RenderOtherModels.
OtherModelsReturned ==
    /\ Len(log) >= Len(RenderOtherModels)
    /\ [i \in 1..Len(RenderOtherModels) |->
           LET e == log[Len(log) - Len(RenderOtherModels) + i]
           IN  Call(e.op, e.s, e.t, e.n)] = RenderOtherModels

\* The bindings RenderOtherModels was called under.
OtherModelsEntry == log[Len(log) - Len(RenderOtherModels) + 1]

\* C28: RenderOtherModels draws the sky with culling off and the lights with
\* additive blending, read-only depth and culling off, and returns with no
\* blending, the normal depth state and back-face culling, whatever the
\* states were at its call; the reflection pass, which calls it under
\* front-face culling, is back to back-face culling before it restores the
\* camera.
C28_OtherModelsStates ==
    /\ DrawSeen =>
           /\ Last.s = "Sky" => Last.cull = "CullNone"
           /\ Last.s = "Light" =>
                  /\ Last.blend = "AdditiveBlending"
                  /\ Last.dss = "DepthReadOnly"
                  /\ Last.cull = "CullNone"
    /\ (log # <<>> /\ OtherModelsReturned) =>
           /\ gpu.blend = "NoBlending"
           /\ gpu.dss = "UseDepthBuffer"
           /\ gpu.cull = "CullBack"
    /\ (log # <<>> /\ Last.op = "RestoreWorldMatrix") =>
           /\ Last.rt = "Reflection"
           /\ Last.cull = "CullBack"

C28_Witness ==
    /\ log # <<>>
    /\ OtherModelsReturned
    /\ OtherModelsEntry.rt = "Reflection"
    /\ OtherModelsEntry.cull = "CullFront"
    /\ gpu.cull = "CullBack"
    /\ InFrame
    /\ Current.op = "RestoreWorldMatrix"

\* C29: the back buffer's colour is never cleared: no ClearRenderTargetView
\* names it, and between its selection and Present the only clear is that
\* of the depth buffer, so only draws write its colour.
C29_BackBufferNotCleared ==
    \A i \in 1..Len(log) :
        /\ log[i].op = "ClearRenderTargetView" =>
               log[i].s \in Offscreen /\ log[i].rt = log[i].s
        /\ (log[i].rt = "BackBuffer" /\ log[i].op \in {"ClearRenderTargetView", "ClearDepthStencilView"}) =>
               log[i].op = "ClearDepthStencilView" /\ log[i].s = "DepthStencil"

C29_Witness ==
    /\ FrameDone
    /\ LaterFrame
    /\ Last.op = "Present"
    /\ Last.rt = "BackBuffer"
    /\ CompositeDraws = CompositeOrder
    /\ \E i \in 1..Len(log) : log[i].rt = "BackBuffer" /\ log[i].op = "ClearDepthStencilView"

-----------------------------------------------------------------------------
(* The water height control.                                               *)

\* The change of height the keys ask for: 5 units a second.
WaterPlaneAsked(ft, period, comma) ==
    IF period /\ ~comma THEN 5 * ft
    ELSE IF comma /\ ~period THEN -(5 * ft)
    ELSE 0

\* C25 as stated: the height changes by exactly +5*frameTime with Period
\* alone, by -5*frameTime with Comma alone, and not at all with neither or
\* both.
C25_Original ==
    wp.stage = "Done" => wp.y = wp.y0 + WaterPlaneAsked(wp.ft, wp.period, wp.comma)

\* C25: the height is unchanged with neither key. With Period alone it is
\* y + 5*frameTime and with Comma alone y - 5*frameTime as the build
\* computes it in float: the sum rounded once where the multiply and the
\* add are fused, and else the product rounded and then the sum; exactly
\* the sum whenever 5*frameTime and the sum are both floats. With both keys
\* it is unchanged whenever 5*frameTime and y + 5*frameTime are both floats,
\* and otherwise within two float spacings of y, taken at the largest of
\* |y|, 5*frameTime and |y + 5*frameTime|. No bound is applied: the result
\* may be below zero or above any height.
C25_WaterPlaneStep ==
    wp.stage = "Done" =>
        LET e     == 5 * wp.ft
            d     == RoundF(e)
            asked == wp.y0 + WaterPlaneAsked(wp.ft, wp.period, wp.comma)
            large == CHOOSE m \in {Abs(wp.y0), d, Abs(RoundF(wp.y0 + d))} :
                         \A n \in {Abs(wp.y0), d, Abs(RoundF(wp.y0 + d))} : n <= m
        IN  /\ (wp.period /\ ~wp.comma) => wp.y \in {RoundF(wp.y0 + d), RoundF(wp.y0 + e)}
            /\ (wp.comma /\ ~wp.period) => wp.y \in {RoundF(wp.y0 - d), RoundF(wp.y0 - e)}
            /\ (wp.period # wp.comma /\ Representable(e) /\ Representable(asked)) =>
                   wp.y = asked
            /\ (~wp.period /\ ~wp.comma) => wp.y = wp.y0
            /\ (wp.period /\ wp.comma) =>
                   /\ (Representable(e) /\ Representable(wp.y0 + e)) => wp.y = wp.y0
                   /\ Abs(wp.y - wp.y0) <= 2 * Ulp(large)

\* Both keys for 22.4 s from a height three float spacings above 16, on a
\* build that fuses: the height comes back one spacing above 16.
C25_Witness ==
    /\ wp.stage = "Done"
    /\ wp.period
    /\ wp.comma
    /\ wp.y0 = FloatSignificand + 6
    /\ wp.ft = 23488102
    /\ wp.y = FloatSignificand + 2

\* C26: once UpdateScene has been called, waterPlaneY in the per-frame
\* constants is the water model's height, between frames and all through
\* every frame, so the mirrored camera of the reflection pass is the mirror
\* image in the plane the shaders read.
C26_PlaneOfConstantsIsWaterPlane ==
    (upd.called /\ pc >= 0) =>
        /\ pfc.waterPlaneY = waterY
        /\ Mirrored => camera = ReflectCamera(entryMatrix, pfc.waterPlaneY)

C26_Witness ==
    /\ upd.called
    /\ Mirrored
    /\ DrawSeen
    /\ Last.rt = "Reflection"
    /\ waterY = 20
    /\ pfc.waterPlaneY = 20
    /\ entryMatrix.position.y = 50
    /\ camera.position.y = -10

-----------------------------------------------------------------------------
(* ReleaseResources after a failed InitGeometry.                           *)

\* The globals ReleaseResources calls Release on.
ReleasedGlobals ==
    {ReleaseResources[i].global : i \in {j \in 1..Len(ReleaseResources) : ReleaseResources[j].op = "Release"}}

\* The textures, views and constant buffers InitGeometry creates.
CreatedGlobals ==
    UNION {InitGeometry[i].sets :
               i \in {j \in 1..Len(InitGeometry) :
                          InitGeometry[j].op \in {"LoadTexture", "CreateTexture2D", "CreateRenderTargetView",
                                                  "CreateShaderResourceView", "CreateConstantBuffer"}}}

\* How many times the global has been released.
TimesReleased(g) == Len(SelectSeq(ig.released, LAMBDA x : x = g))

\* C30: when InitGeometry has failed at any of its calls and ReleaseResources
\* has then run once, every texture, view and constant buffer created before
\* the failure has been released exactly once, and none that was never
\* created has been released; ReleaseResources covers every such resource
\* InitGeometry creates.
C30_ReleasedOnceIfCreated ==
    /\ CreatedGlobals = ReleasedGlobals
    /\ \A g \in ReleasedGlobals :
           /\ TimesReleased(g) <= (IF g \in ig.live THEN 1 ELSE 0)
           /\ ig.stage = "Released" => TimesReleased(g) = (IF g \in ig.live THEN 1 ELSE 0)

C30_Witness ==
    /\ ig.stage = "Released"
    /\ ig.result = FALSE
    /\ ig.failed = {17}
    /\ TimesReleased("gReflectionSRV") = 1
    /\ TimesReleased("gSkyDiffuseSpecularMap") = 1
    /\ TimesReleased("gRefraction") = 0
    /\ TimesReleased("gPerFrameConstantBuffer") = 0

=============================================================================
